---- MODULE Spec2Model ----
(***************************************************************************)
(* A model of DWARFParser (volatility/plugins/overlays/linux/linux32.py):  *)
(* the dwarfdump line parser that builds the vtype tables of a Linux       *)
(* profile.  One line is fed per step (feed_line); parse_dwarf's           *)
(* closing call of finalize ends the stream.                               *)
(***************************************************************************)
EXTENDS Integers, Sequences, FiniteSets, TLC

VARIABLES
    current_level,   \* self.current_level
    name_stack,      \* self.name_stack: frames [kind, name-or-statement-id]
    id_to_name,      \* self.id_to_name: statement id -> value
    all_vtypes,      \* self.all_vtypes: name -> [size, members]
    vtypes,          \* self.vtypes: the unit being parsed
    enums,           \* self.enums: name -> [size, name -> value]
    all_vars,        \* self.all_vars
    vars,            \* self.vars
    all_local_vars,  \* self.all_local_vars
    local_vars,      \* self.local_vars
    err,             \* the exception that ended the parse, or "none"
    phase,           \* "feeding" while parse_dwarf's loop runs, then "done" / "failed"
    fed              \* the lines consumed so far, in order

state == <<current_level, name_stack, id_to_name, all_vtypes, vtypes, enums,
           all_vars, vars, all_local_vars, local_vars, err, phase, fed>>

-----------------------------------------------------------------------------
(* Bounds of the exploration.                                              *)

\* Lines fed before parse_dwarf's closing finalize.
MaxLines == 5

\* The deepest level of a line of the scope streams.
MaxLevel == 2

-----------------------------------------------------------------------------
(* Python values.  Every value has the same shape, so that any two can be  *)
(* compared: k is the Python type, s a str's text, n an int's value (or    *)
(* the id of the reference string '<id'), l a list's items, d a dict's     *)
(* items as a set of <<key, value>> pairs.                                 *)

PNone    == [k |-> "None", s |-> "", n |-> 0, l |-> <<>>, d |-> {}]
PStr(t)  == [k |-> "str",  s |-> t,  n |-> 0, l |-> <<>>, d |-> {}]
PInt(i)  == [k |-> "int",  s |-> "", n |-> i, l |-> <<>>, d |-> {}]
\* the str '<id': what dwarf_key_val_regex leaves of DW_AT_type<<id>>
PRef(i)  == [k |-> "ref",  s |-> "", n |-> i, l |-> <<>>, d |-> {}]
PList(q) == [k |-> "list", s |-> "", n |-> 0, l |-> q,    d |-> {}]
PDict(e) == [k |-> "dict", s |-> "", n |-> 0, l |-> <<>>, d |-> e]
\* not a Python value: the exception raised while computing one
PErr(e)  == [k |-> "err",  s |-> e,  n |-> 0, l |-> <<>>, d |-> {}]

IsErr(v) == v.k = "err"

\* if v: (None, '', 0, [] and {} are false)
Truthy(v) ==
    CASE v.k = "None" -> FALSE
      [] v.k = "str"  -> v.s # ""
      [] v.k = "int"  -> v.n # 0
      [] v.k = "list" -> v.l # <<>>
      [] v.k = "dict" -> v.d # {}
      [] OTHER        -> TRUE

\* lists and dicts cannot be set members or dict keys (TypeError)
Hashable(v) == v.k \notin {"list", "dict"}

\* Python dicts as functions
EmptyDict == [x \in {} |-> 0]
Put(dict, key, val) ==
    [x \in DOMAIN dict \cup {key} |-> IF x = key THEN val ELSE dict[x]]
\* dict.update(other)
Update(dict, other) ==
    [x \in DOMAIN dict \cup DOMAIN other |->
        IF x \in DOMAIN other THEN other[x] ELSE dict[x]]
Without(dict, keys) == [x \in DOMAIN dict \ keys |-> dict[x]]

\* the first exception among a sequence of values, or PNone
RECURSIVE FirstErr(_)
FirstErr(q) ==
    IF q = <<>> THEN PNone
    ELSE IF IsErr(Head(q)) THEN Head(q) ELSE FirstErr(Tail(q))

-----------------------------------------------------------------------------
(* Class constants.                                                        *)

sz2tp == (8 :> "long long") @@ (4 :> "long") @@ (2 :> "short") @@ (1 :> "char")

tp2vol ==
    [n \in {"_Bool", "char", "float", "double", "long double", "int", "long int",
            "long long int", "long long unsigned int", "long unsigned int",
            "short int", "short unsigned int", "signed char", "unsigned char",
            "unsigned int"} |->
        CASE n = "_Bool"                  -> "unsigned char"
          [] n = "long double"            -> "double"
          [] n = "long int"               -> "long"
          [] n = "long long int"          -> "long long"
          [] n = "long long unsigned int" -> "unsigned long long"
          [] n = "long unsigned int"      -> "unsigned long"
          [] n = "short int"              -> "short"
          [] n = "short unsigned int"     -> "unsigned short"
          [] OTHER                        -> n]

\* "__unnamed_%s" % statement_id
UnnamedName(id) == "__unnamed_" \o ToString(id)

-----------------------------------------------------------------------------
(* The text of one attribute value (the val group of dwarf_key_val_regex), *)
(* by the way Python reads it:                                             *)
(*   "text"   a word that is no number and does not start with '<'         *)
(*   "dec"    a decimal integer n                                          *)
(*   "hex"    a 0x-prefixed integer n                                      *)
(*   "paren"  a decimal integer n followed by a parenthesised remark       *)
(*   "ref"    '<n', a reference to statement n                             *)
(*   "words"  several whitespace-separated tokens w                        *)

AText(t)  == [form |-> "text",  s |-> t,  n |-> 0, w |-> <<>>]
ADec(i)   == [form |-> "dec",   s |-> "", n |-> i, w |-> <<>>]
AHex(i)   == [form |-> "hex",   s |-> "", n |-> i, w |-> <<>>]
AParen(i) == [form |-> "paren", s |-> "", n |-> i, w |-> <<>>]
ARef(i)   == [form |-> "ref",   s |-> "", n |-> i, w |-> <<>>]
AWords(q) == [form |-> "words", s |-> "", n |-> 0, w |-> q]

\* str.split()
Split(a) ==
    IF a.form = "words" THEN a.w
    ELSE IF a.form = "text" /\ a.s = "" THEN <<>> ELSE <<a>>

\* str.split('(')[0]
BeforeParen(a) == IF a.form = "paren" THEN ADec(a.n) ELSE a

\* int(text): the value, or ValueError
PyInt(a) == IF a.form = "dec" THEN PInt(a.n) ELSE PErr("ValueError")

\* int(text, 0)
PyInt0(a) == IF a.form \in {"dec", "hex"} THEN PInt(a.n) ELSE PErr("ValueError")

\* the attribute's text as the Python str it is
AttrStr(a) ==
    CASE a.form = "ref"  -> PRef(a.n)
      [] a.form = "text" -> PStr(a.s)
      [] a.form = "dec"  -> PStr(ToString(a.n))
      [] a.form = "hex"  -> PStr("0x" \o ToString(a.n))
      [] OTHER           -> PStr("?")

\* data[key]
Attr(data, key) == IF key \in DOMAIN data THEN AttrStr(data[key]) ELSE PErr("KeyError")

\* int(data[key])
AttrInt(data, key) == IF key \in DOMAIN data THEN PyInt(data[key]) ELSE PErr("KeyError")

\* data.get('DW_AT_type', ['void'])
TypeOrVoid(data) ==
    IF "DW_AT_type" \in DOMAIN data THEN AttrStr(data["DW_AT_type"])
    ELSE PList(<<PStr("void")>>)

\* data.get('DW_AT_name', "__unnamed_%s" % statement_id)
NameOrUnnamed(data, statement_id) ==
    IF "DW_AT_name" \in DOMAIN data THEN AttrStr(data["DW_AT_name"]).s
    ELSE UnnamedName(statement_id)

\* One input line.  hdr: dwarf_header_regex matches; then level, id and kind are
\* its groups and data the key/value pairs found after it.
Line(level, id, kind, data) ==
    [hdr |-> TRUE, level |-> level, id |-> id, kind |-> kind, data |-> data]
Noise == [hdr |-> FALSE, level |-> 0, id |-> 0, kind |-> "", data |-> EmptyDict]

-----------------------------------------------------------------------------
(* DWARFParser's helpers.                                                  *)

\* resolve(memb) over the index idx.  seen: the references being resolved
\* on the way down; meeting one again is a recursion that never returns
\* (RuntimeError: maximum recursion depth exceeded).
\* resolve that returns what the index holds without resolving it in turn
RECURSIVE resolveOneStep(_, _, _)
resolveOneStep(idx, memb, seen) ==
    IF memb.k = "ref"
    THEN IF memb.n \notin DOMAIN idx THEN PErr("KeyError") ELSE idx[memb.n]
    ELSE IF memb.k = "list"
    THEN LET r == [i \in 1..Len(memb.l) |-> resolveOneStep(idx, memb.l[i], seen)]
         IN  IF IsErr(FirstErr(r)) THEN FirstErr(r) ELSE PList(r)
    ELSE memb

RECURSIVE resolve(_, _, _)
resolve(idx, memb, seen) ==
    IF memb.k = "ref"
    THEN IF memb.n \notin DOMAIN idx THEN PErr("KeyError")
         ELSE IF memb.n \in seen THEN PErr("RuntimeError")
         ELSE resolve(idx, idx[memb.n], seen \cup {memb.n})
    ELSE IF memb.k = "list"
    THEN LET r == [i \in 1..Len(memb.l) |-> resolve(idx, memb.l[i], seen)]
         IN  IF IsErr(FirstErr(r)) THEN FirstErr(r) ELSE PList(r)
    ELSE memb

RECURSIVE deep_replace(_, _, _)
deep_replace(t, search, repl) ==
    IF t = search THEN repl
    ELSE IF t.k = "list"
    THEN PList([i \in 1..Len(t.l) |-> deep_replace(t.l[i], search, repl)])
    ELSE t

\* the first true get_deepest(part) of parts i..Len(q), or None
RECURSIVE get_deepest(_)
RECURSIVE FirstDeepest(_, _)
FirstDeepest(q, i) ==
    IF i > Len(q) THEN PNone
    ELSE LET res == get_deepest(q[i])
         IN  IF Truthy(res) THEN res ELSE FirstDeepest(q, i + 1)

get_deepest(t) ==
    IF t.k = "list"
    THEN IF Len(t.l) = 1 THEN t.l[1] ELSE FirstDeepest(t.l, 1)
    ELSE PNone

base_type_name(data) ==
    IF "DW_AT_name" \in DOMAIN data
    THEN LET nm == AttrStr(data["DW_AT_name"]).s
         IN  IF nm \in DOMAIN tp2vol THEN PStr(tp2vol[nm]) ELSE PErr("KeyError")
    ELSE LET sz == AttrInt(data, "DW_AT_byte_size")
         IN  IF IsErr(sz) THEN sz
             ELSE IF "DW_AT_encoding" \notin DOMAIN data THEN PErr("KeyError")
             ELSE IF sz.n \notin DOMAIN sz2tp THEN PErr("KeyError")
             ELSE IF data["DW_AT_encoding"] = AText("DW_ATE_unsigned")
                  THEN PStr("unsigned " \o sz2tp[sz.n])
                  ELSE PStr(sz2tp[sz.n])

-----------------------------------------------------------------------------
(* The parser object.  The operations below take the object's fields as a  *)
(* record self and give the record after the call; its err field names     *)
(* the exception the call raised, with the fields as the statements        *)
(* before the raise left them.                                             *)

\* the statement_id str as the second item of a scope frame
PSid(i) == [k |-> "sid", s |-> "", n |-> i, l |-> <<>>, d |-> {}]

Frame(kind, name) == [kind |-> kind, name |-> name]
NoParent == Frame("None", PNone)

Raise(self, e) == [self EXCEPT !.err = e]

\* self.name_stack[-1][1] = name
SetTop(self, name) ==
    [self EXCEPT !.name_stack[Len(self.name_stack)].name = name]

\* a struct, union or enum layout as first stored: [size, {}]
Layout(size) == [size |-> size, members |-> EmptyDict]

\* a scope update that keeps every frame when the level falls
ScopeUpdateKeepingFrames(self, kind, new_level, statement_id) ==
    LET ns == self.name_stack
        grown == IF new_level > self.current_level
                 THEN Append(ns, Frame("", PNone))
                 ELSE ns
    IN  IF grown = <<>>
        THEN Raise([self EXCEPT !.current_level = new_level, !.name_stack = grown], "IndexError")
        ELSE [self EXCEPT !.current_level = new_level,
                          !.name_stack = [grown EXCEPT ![Len(grown)] =
                                              Frame(kind, PSid(statement_id))]]

\* lines 162-170: the scope stack after a statement of new_level
ScopeUpdate(self, kind, new_level, statement_id) ==
    LET ns == self.name_stack
        grown == IF new_level > self.current_level
                 THEN Append(ns, Frame("", PNone))
                 ELSE IF new_level < self.current_level
                 THEN SubSeq(ns, 1, IF new_level + 1 < Len(ns) THEN new_level + 1 ELSE Len(ns))
                 ELSE ns
        lvl == IF new_level # self.current_level THEN new_level ELSE self.current_level
    IN  IF grown = <<>>
        THEN Raise([self EXCEPT !.current_level = lvl, !.name_stack = grown], "IndexError")
        ELSE [self EXCEPT !.current_level = lvl,
                          !.name_stack = [grown EXCEPT ![Len(grown)] =
                                              Frame(kind, PSid(statement_id))]]

\* lines 172-175: name_stack[-2], or (None, None)
Parent(self) ==
    IF Len(self.name_stack) >= 2
    THEN self.name_stack[Len(self.name_stack) - 1]
    ELSE NoParent

\* a declaration that gives a forward declaration an empty entry of size 0
DeclareNamedEmptyEntry(self, data, statement_id, table) ==
    LET name == NameOrUnnamed(data, statement_id)
        s1 == [SetTop(self, PStr(name)) EXCEPT
                  !.id_to_name = Put(self.id_to_name, statement_id, PList(<<PStr(name)>>))]
        sz == IF "DW_AT_declaration" \in DOMAIN data THEN PInt(0)
              ELSE AttrInt(data, "DW_AT_byte_size")
    IN  IF IsErr(sz) THEN Raise(s1, sz.s)
        ELSE IF table = "enums"
             THEN [s1 EXCEPT !.enums = Put(s1.enums, name, [size |-> sz.n, values |-> EmptyDict])]
             ELSE [s1 EXCEPT !.vtypes = Put(s1.vtypes, name, Layout(sz.n))]

\* lines 185-193 (struct) and 205-214 (enum): a forward declaration keeps
\* the name only
DeclareNamed(self, data, statement_id, table) ==
    LET name == NameOrUnnamed(data, statement_id)
        s1 == [SetTop(self, PStr(name)) EXCEPT
                  !.id_to_name = Put(self.id_to_name, statement_id, PList(<<PStr(name)>>))]
        sz == AttrInt(data, "DW_AT_byte_size")
    IN  IF "DW_AT_declaration" \in DOMAIN data THEN s1
        ELSE IF IsErr(sz) THEN Raise(s1, sz.s)
        ELSE IF table = "enums"
             THEN [s1 EXCEPT !.enums = Put(s1.enums, name, [size |-> sz.n, values |-> EmptyDict])]
             ELSE [s1 EXCEPT !.vtypes = Put(s1.vtypes, name, Layout(sz.n))]

\* lines 195-199
DeclareUnion(self, data, statement_id) ==
    LET name == NameOrUnnamed(data, statement_id)
        s1 == [SetTop(self, PStr(name)) EXCEPT
                  !.id_to_name = Put(self.id_to_name, statement_id, PList(<<PStr(name)>>))]
        sz == AttrInt(data, "DW_AT_byte_size")
    IN  IF IsErr(sz) THEN Raise(s1, sz.s)
        ELSE [s1 EXCEPT !.vtypes = Put(s1.vtypes, name, Layout(sz.n))]

\* self.id_to_name[statement_id] = value, or the exception value stands for
MapId(self, statement_id, value) ==
    IF IsErr(value) THEN Raise(self, value.s)
    ELSE [self EXCEPT !.id_to_name = Put(self.id_to_name, statement_id, value)]

\* lines 234-239: a variable of level 1 with a location of two tokens or more
GlobalVariable(self, data) ==
    IF "DW_AT_location" \notin DOMAIN data THEN self
    ELSE LET split == Split(data["DW_AT_location"])
         IN  IF Len(split) <= 1 THEN self
             ELSE LET loc == PyInt0(split[2])
                      tp == Attr(data, "DW_AT_type")
                      nm == Attr(data, "DW_AT_name")
                  IN  IF IsErr(loc) THEN Raise(self, loc.s)
                      ELSE IF IsErr(tp) THEN Raise(self, tp.s)
                      ELSE IF IsErr(nm) THEN Raise(self, nm.s)
                      ELSE [self EXCEPT !.vars = Put(self.vars, nm.s, PList(<<loc, tp>>))]

\* a descriptor built without line 255's swap (and so without its assert)
BitFieldSwapless(data) ==
    LET bytes == AttrInt(data, "DW_AT_byte_size")
        off == AttrInt(data, "DW_AT_bit_offset")
        bits == AttrInt(data, "DW_AT_bit_size")
    IN  IF IsErr(bytes) THEN bytes
        ELSE IF IsErr(off) THEN off
        ELSE IF IsErr(bits) THEN bits
        ELSE LET full_size == bytes.n * 8
                 stbit == full_size - off.n
                 edbit == full_size - (off.n + bits.n)
             IN  PList(<<PStr("BitField"),
                         PDict({<<PStr("start_bit"), PInt(stbit)>>, <<PStr("end_bit"), PInt(edbit)>>})>>)

\* a descriptor that counts its bits from the least-significant bit
BitFieldFromLsb(data) ==
    LET bytes == AttrInt(data, "DW_AT_byte_size")
        off == AttrInt(data, "DW_AT_bit_offset")
        bits == AttrInt(data, "DW_AT_bit_size")
    IN  IF IsErr(bytes) THEN bytes
        ELSE IF IsErr(off) THEN off
        ELSE IF IsErr(bits) THEN bits
        ELSE IF ~(off.n < off.n + bits.n) THEN PErr("AssertionError")
        ELSE PList(<<PStr("BitField"),
                     PDict({<<PStr("start_bit"), PInt(off.n)>>,
                            <<PStr("end_bit"), PInt(off.n + bits.n)>>})>>)

\* lines 250-257: the bitfield descriptor of a member, or the exception
BitField(data) ==
    LET bytes == AttrInt(data, "DW_AT_byte_size")
        off == AttrInt(data, "DW_AT_bit_offset")
        bits == AttrInt(data, "DW_AT_bit_size")
    IN  IF IsErr(bytes) THEN bytes
        ELSE IF IsErr(off) THEN off
        ELSE IF IsErr(bits) THEN bits
        ELSE LET full_size == bytes.n * 8
                 stbit0 == full_size - off.n
                 edbit0 == full_size - (off.n + bits.n)
                 stbit == edbit0
                 edbit == stbit0
             IN  IF ~(stbit < edbit) THEN PErr("AssertionError")
                 ELSE PList(<<PStr("BitField"),
                              PDict({<<PStr("start_bit"), PInt(stbit)>>, <<PStr("end_bit"), PInt(edbit)>>})>>)

\* a store that drops the members stored before
PutMemberReplacing(self, parent_name, name, memb) ==
    IF parent_name \notin DOMAIN self.vtypes THEN Raise(self, "KeyError")
    ELSE [self EXCEPT !.vtypes[parent_name].members = Put(EmptyDict, name, memb)]

\* self.vtypes[parent_name][1][name] = memb
PutMember(self, parent_name, name, memb) ==
    IF parent_name \notin DOMAIN self.vtypes THEN Raise(self, "KeyError")
    ELSE [self EXCEPT !.vtypes[parent_name].members =
                          Put(self.vtypes[parent_name].members, name, memb)]

\* lines 245-261
StructMember(self, data, statement_id, parent_name) ==
    LET name == NameOrUnnamed(data, statement_id)
        split == IF "DW_AT_data_member_location" \in DOMAIN data
                 THEN Split(data["DW_AT_data_member_location"]) ELSE <<>>
        off == IF "DW_AT_data_member_location" \notin DOMAIN data THEN PErr("KeyError")
               ELSE IF Len(split) < 2 THEN PErr("IndexError")
               ELSE PyInt(split[2])
        memb_tp == IF "DW_AT_bit_size" \in DOMAIN data /\ "DW_AT_bit_offset" \in DOMAIN data
                   THEN BitField(data)
                   ELSE Attr(data, "DW_AT_type")
    IN  IF IsErr(off) THEN Raise(self, off.s)
        ELSE IF IsErr(memb_tp) THEN Raise(self, memb_tp.s)
        ELSE PutMember(self, parent_name, name, PList(<<off, memb_tp>>))

\* lines 263-265
UnionMember(self, data, statement_id, parent_name) ==
    LET name == NameOrUnnamed(data, statement_id)
        tp == Attr(data, "DW_AT_type")
    IN  IF IsErr(tp) THEN Raise(self, tp.s)
        ELSE PutMember(self, parent_name, name, PList(<<PInt(0), tp>>))

\* lines 267-275
Enumerator(self, data, parent_name) ==
    LET name == Attr(data, "DW_AT_name")
        first == AttrInt(data, "DW_AT_const_value")
        val == IF IsErr(first) /\ first.s = "ValueError"
               THEN PyInt(BeforeParen(data["DW_AT_const_value"]))
               ELSE first
    IN  IF IsErr(name) THEN Raise(self, name.s)
        ELSE IF IsErr(val) THEN Raise(self, val.s)
        ELSE IF parent_name \notin DOMAIN self.enums THEN Raise(self, "KeyError")
        ELSE [self EXCEPT !.enums[parent_name].values =
                              Put(self.enums[parent_name].values, name.s, val.n)]

\* a subrange that wraps the element type, inside the descriptors the
\* array already has
RECURSIVE WrapInside(_, _)
WrapInside(tp, sz) ==
    IF tp.k = "list" /\ Len(tp.l) = 3 /\ tp.l[1] = PStr("array")
    THEN PList(<<PStr("array"), tp.l[2], WrapInside(tp.l[3], sz)>>)
    ELSE PList(<<PStr("array"), PInt(sz), tp>>)

SubrangeInside(self, data, parent_id) ==
    LET ub == IF "DW_AT_upper_bound" \in DOMAIN data THEN data["DW_AT_upper_bound"] ELSE ADec(0)
        direct == PyInt(ub)
        fallback == PyInt(BeforeParen(ub))
        sz == IF "DW_AT_upper_bound" \notin DOMAIN data THEN 0
              ELSE IF ~IsErr(direct) THEN direct.n + 1
              ELSE IF ~IsErr(fallback) THEN fallback.n + 1
              ELSE 0 + 1
    IN  IF parent_id \notin DOMAIN self.id_to_name THEN Raise(self, "KeyError")
        ELSE [self EXCEPT !.id_to_name =
                 Put(self.id_to_name, parent_id, WrapInside(self.id_to_name[parent_id], sz))]

\* lines 277-292
Subrange(self, data, parent_id) ==
    LET ub == IF "DW_AT_upper_bound" \in DOMAIN data THEN data["DW_AT_upper_bound"] ELSE ADec(0)
        direct == PyInt(ub)
        fallback == PyInt(BeforeParen(ub))
        sz == IF "DW_AT_upper_bound" \notin DOMAIN data THEN 0
              ELSE IF ~IsErr(direct) THEN direct.n + 1
              ELSE IF ~IsErr(fallback) THEN fallback.n + 1
              ELSE 0 + 1
    IN  IF parent_id \notin DOMAIN self.id_to_name THEN Raise(self, "KeyError")
        ELSE [self EXCEPT !.id_to_name =
                 Put(self.id_to_name, parent_id,
                     PList(<<PStr("array"), PInt(sz), self.id_to_name[parent_id]>>))]

-----------------------------------------------------------------------------
(* finalize.  The loops over a dict visit its keys in the dict's own      *)
(* order, which the program does not fix, and they store as they go: a    *)
(* call that raises part-way leaves the entries visited before the raise  *)
(* rewritten.  An operation's result is therefore a set of outcomes.      *)

\* str.startswith(prefix)
StartsWith(str, prefix) ==
    Len(str) >= Len(prefix) /\ SubSeq(str, 1, Len(prefix)) = prefix

IsSynthetic(name) == StartsWith(name, "__unnamed_")

\* "for v in table: for m in table[v][1]: table[v][1][m] = New(v, m)":
\* the outcomes [err, table].  When some New(v, m) raises, the layouts in W
\* were visited whole before it and the members M of its layout v0 too.
MapMembers(table, New(_, _)) ==
    LET Failing(v) == {m \in DOMAIN table[v].members : IsErr(New(v, m))}
        Bad == {v \in DOMAIN table : Failing(v) # {}}
        Part(v, M) == [size |-> table[v].size,
                       members |-> [m \in DOMAIN table[v].members |->
                                       IF m \in M THEN New(v, m) ELSE table[v].members[m]]]
        Full(v) == Part(v, DOMAIN table[v].members)
    IN  IF Bad = {}
        THEN {[err |-> "none", table |-> [v \in DOMAIN table |-> Full(v)]]}
        ELSE UNION {UNION {UNION {
                 {[err |-> New(v0, m0).s,
                   table |-> [v \in DOMAIN table |->
                                 IF v \in W THEN Full(v)
                                 ELSE IF v = v0 THEN Part(v0, M) ELSE table[v]]]
                    : M \in SUBSET (DOMAIN table[v0].members \ Failing(v0))}
                 : m0 \in Failing(v0)} : v0 \in Bad} : W \in SUBSET (DOMAIN table \ Bad)}

\* resolve_refs (lines 92-98): the outcomes [err, table]
resolve_refs(self) ==
    LET New(v, m) == resolve(self.id_to_name, self.vtypes[v].members[m], {})
    IN  MapMembers(self.vtypes, New)

\* a merge that adds the unit's members to those a layout already has
MergeVtypesKeepingOld(self) ==
    LET Merged(table) ==
            [t \in DOMAIN self.all_vtypes \cup DOMAIN table |->
                IF t \notin DOMAIN table THEN self.all_vtypes[t]
                ELSE IF t \notin DOMAIN self.all_vtypes THEN table[t]
                ELSE [size |-> table[t].size,
                      members |-> Update(self.all_vtypes[t].members, table[t].members)]]
    IN  IF DOMAIN self.vtypes = {} THEN {self}
        ELSE {IF o.err # "none"
              THEN Raise([self EXCEPT !.vtypes = o.table], o.err)
              ELSE [self EXCEPT !.vtypes = o.table, !.all_vtypes = Merged(o.table)]
                 : o \in resolve_refs(self)}

\* a merge that puts the unit's layouts in the cumulative table even when
\* resolving them raised
MergeVtypesDespiteError(self) ==
    IF DOMAIN self.vtypes = {} THEN {self}
    ELSE {IF o.err # "none"
          THEN Raise([self EXCEPT !.vtypes = o.table,
                                  !.all_vtypes = Update(self.all_vtypes, o.table)], o.err)
          ELSE [self EXCEPT !.vtypes = o.table,
                            !.all_vtypes = Update(self.all_vtypes, o.table)]
             : o \in resolve_refs(self)}

\* lines 308-310
MergeVtypes(self) ==
    IF DOMAIN self.vtypes = {} THEN {self}
    ELSE {IF o.err # "none"
          THEN Raise([self EXCEPT !.vtypes = o.table], o.err)
          ELSE [self EXCEPT !.vtypes = o.table,
                            !.all_vtypes = Update(self.all_vtypes, o.table)]
             : o \in resolve_refs(self)}

\* lines 311-313
MergeVars(self) ==
    LET r == [k \in DOMAIN self.vars |-> resolve(self.id_to_name, self.vars[k], {})]
        bad == {k \in DOMAIN r : IsErr(r[k])}
    IN  IF DOMAIN self.vars = {} THEN {self}
        ELSE IF bad # {} THEN {Raise(self, r[k].s) : k \in bad}
        ELSE {[self EXCEPT !.vars = r, !.all_vars = Update(self.all_vars, r)]}

\* a local variable record (name, lineno, decl_file, type)
LocalVar(name, lineno, decl_file, tp) ==
    [name |-> name, lineno |-> lineno, decl_file |-> decl_file, tp |-> tp]

\* lines 314-317
MergeLocalVars(self) ==
    LET r == [i \in 1..Len(self.local_vars) |->
                 resolve(self.id_to_name, self.local_vars[i].tp, {})]
    IN  IF self.local_vars = <<>> THEN {self}
        ELSE IF IsErr(FirstErr(r)) THEN {Raise(self, FirstErr(r).s)}
        ELSE LET lv == [i \in 1..Len(self.local_vars) |->
                           [self.local_vars[i] EXCEPT !.tp = r[i]]]
             IN  {[self EXCEPT !.local_vars = lv,
                               !.all_local_vars = self.all_local_vars \o lv]}

\* lines 324-329: the set s of one pass
Leaves(types, globals) ==
    UNION {{get_deepest(types[v].members[m]) : m \in DOMAIN types[v].members}
              : v \in DOMAIN types}
    \cup {get_deepest(globals[g].l[2]) : g \in DOMAIN globals}

\* a pass that does not look at the name
ElimPassAnyName(types, globals) ==
    Without(types, {v \in DOMAIN types : PStr(v) \notin Leaves(types, globals)})

\* lines 324-333: one pass of the while loop
ElimPass(types, globals) ==
    Without(types, {v \in DOMAIN types :
                       IsSynthetic(v) /\ PStr(v) \notin Leaves(types, globals)})

\* a loop that stops after its first pass
ElimLoopOnePass(types, globals) == ElimPass(types, globals)

\* lines 321-333: passes until one removes nothing
RECURSIVE ElimLoop(_, _)
ElimLoop(types, globals) ==
    LET nxt == ElimPass(types, globals)
    IN  IF DOMAIN nxt = DOMAIN types THEN types ELSE ElimLoop(nxt, globals)

\* s.add(x) raises TypeError for a list or a dict
Eliminate(self) ==
    IF \E x \in Leaves(self.all_vtypes, self.all_vars) : ~Hashable(x)
    THEN {Raise(self, "TypeError")}
    ELSE {[self EXCEPT !.all_vtypes = ElimLoop(self.all_vtypes, self.all_vars)]}

\* dict((v, k) for k, v in values.items()): of the names that share a
\* value, the one the dict's order visits last is kept
Inverted(values) ==
    LET Vals == {values[k] : k \in DOMAIN values}
    IN  {{<<PInt(v), PStr(g[v])>> : v \in Vals} :
            g \in {h \in [Vals -> DOMAIN values] : \A v \in Vals : values[h[v]] = v}}

\* one inverted dict for each enum
Picks(ens) ==
    {p \in [DOMAIN ens -> UNION {Inverted(ens[e].values) : e \in DOMAIN ens}] :
        \A e \in DOMAIN ens : p[e] \in Inverted(ens[e].values)}

\* ['Enumeration', dict(target = self.sz2tp[sz], choices = vals)]
Enumeration(target, vals) ==
    PList(<<PStr("Enumeration"),
            PDict({<<PStr("target"), PStr(target)>>, <<PStr("choices"), PDict(vals)>>})>>)

\* an enum merge that rewrites a member only when the enum is its type
\* itself, not when a pointer or an array wraps it
InlineTopLevelOnly(memb, ens, pick) ==
    LET d == get_deepest(memb)
    IN  IF ~Hashable(d) THEN PErr("TypeError")
        ELSE IF d.k = "str" /\ d.s \in DOMAIN ens
        THEN IF ens[d.s].size \notin DOMAIN sz2tp THEN PErr("KeyError")
             ELSE IF memb.l[Len(memb.l)] = PList(<<d>>)
                  THEN deep_replace(memb, PList(<<d>>),
                                    Enumeration(sz2tp[ens[d.s].size], pick[d.s]))
                  ELSE memb
        ELSE memb

\* an enum merge that puts the descriptor in the place of the member's
\* whole type, pointers and arrays around the enum included
InlineWholeType(memb, ens, pick) ==
    LET d == get_deepest(memb)
    IN  IF ~Hashable(d) THEN PErr("TypeError")
        ELSE IF d.k = "str" /\ d.s \in DOMAIN ens
        THEN IF ens[d.s].size \notin DOMAIN sz2tp THEN PErr("KeyError")
             ELSE PList(<<memb.l[1], Enumeration(sz2tp[ens[d.s].size], pick[d.s])>>)
        ELSE memb

\* lines 338-346: the member as the enum merge leaves it, or the exception
Inline(memb, ens, pick) ==
    LET d == get_deepest(memb)
    IN  IF ~Hashable(d) THEN PErr("TypeError")
        ELSE IF d.k = "str" /\ d.s \in DOMAIN ens
        THEN IF ens[d.s].size \notin DOMAIN sz2tp THEN PErr("KeyError")
             ELSE deep_replace(memb, PList(<<d>>),
                               Enumeration(sz2tp[ens[d.s].size], pick[d.s]))
        ELSE memb

\* all_vtypes[t] and vtypes[t] are one object for every t of the unit that
\* is still in all_vtypes: a store into one shows in the other
Aliased(unit, cumulative) ==
    [t \in DOMAIN unit |-> IF t \in DOMAIN cumulative THEN cumulative[t] ELSE unit[t]]

\* lines 335-346
MergeEnums(self) ==
    UNION {LET New(t, m) == Inline(self.all_vtypes[t].members[m], self.enums, pick)
           IN  {[self EXCEPT !.all_vtypes = o.table,
                             !.vtypes = Aliased(self.vtypes, o.table),
                             !.err = o.err]
                  : o \in MapMembers(self.all_vtypes, New)}
             : pick \in Picks(self.enums)}

\* the outcomes of F on every outcome of S that raised nothing
Then(S, F(_)) == UNION {IF q.err # "none" THEN {q} ELSE F(q) : q \in S}

\* lines 308-317: the tables as the elimination loop finds them
BeforeElim(self) ==
    Then(Then(MergeVtypes(self), MergeVars), MergeLocalVars)

\* lines 306-348
finalize(self) ==
    Then(Then(Then(Then(MergeVtypes(self), MergeVars), MergeLocalVars),
              Eliminate), MergeEnums)

-----------------------------------------------------------------------------
(* Feeding lines.                                                          *)

\* lines 298-304
process_variable(self, data) ==
    IF {"DW_AT_name", "DW_AT_decl_line", "DW_AT_type"} \subseteq DOMAIN data
    THEN LET lineno == PyInt(data["DW_AT_decl_line"])
             split == IF "DW_AT_decl_file" \in DOMAIN data
                      THEN Split(data["DW_AT_decl_file"]) ELSE <<>>
         IN  IF IsErr(lineno) THEN Raise(self, lineno.s)
             ELSE IF "DW_AT_decl_file" \notin DOMAIN data THEN Raise(self, "KeyError")
             ELSE IF Len(split) < 2 THEN Raise(self, "IndexError")
             ELSE [self EXCEPT !.local_vars =
                      Append(self.local_vars,
                             LocalVar(AttrStr(data["DW_AT_name"]).s, lineno.n,
                                      AttrStr(split[2]), AttrStr(data["DW_AT_type"])))]
    ELSE self

\* a unit line that keeps the identifier index of the unit before it
CompileUnitKeepingIndex(self) ==
    {IF q.err # "none" THEN q
     ELSE [q EXCEPT !.vtypes = EmptyDict,
                    !.vars = EmptyDict,
                    !.all_local_vars = q.all_local_vars \o q.local_vars,
                    !.local_vars = <<>>]
        : q \in finalize(self)}

\* lines 177-183
CompileUnit(self) ==
    {IF q.err # "none" THEN q
     ELSE [q EXCEPT !.vtypes = EmptyDict,
                    !.vars = EmptyDict,
                    !.all_local_vars = q.all_local_vars \o q.local_vars,
                    !.local_vars = <<>>,
                    !.id_to_name = EmptyDict]
        : q \in finalize(self)}

\* a dispatch that does not look at the parent's kind before it handles a
\* member, an enumerator or a subrange
process_statementAnyParent(self, kind, level, data, statement_id) ==
    LET s1 == ScopeUpdate(self, kind, level, statement_id)
        parent_name == Parent(s1).name
    IN  IF s1.err # "none" THEN {s1}
        ELSE CASE kind = "DW_TAG_compile_unit" -> CompileUnit(s1)
          [] kind = "DW_TAG_structure_type" -> {DeclareNamed(s1, data, statement_id, "vtypes")}
          [] kind = "DW_TAG_array_type" -> {MapId(s1, statement_id, Attr(data, "DW_AT_type"))}
          [] kind = "DW_TAG_enumeration_type" -> {DeclareNamed(s1, data, statement_id, "enums")}
          [] kind = "DW_TAG_member" -> {StructMember(s1, data, statement_id, parent_name.s)}
          [] kind = "DW_TAG_enumerator" -> {Enumerator(s1, data, parent_name.s)}
          [] kind = "DW_TAG_subrange_type" -> {Subrange(s1, data, parent_name.n)}
          [] OTHER -> {s1}

\* lines 160-295
process_statement(self, kind, level, data, statement_id) ==
    LET s1 == ScopeUpdate(self, kind, level, statement_id)
        parent == Parent(s1)
        parent_kind == parent.kind
        parent_name == parent.name
    IN  IF s1.err # "none" THEN {s1}
        ELSE CASE kind = "DW_TAG_compile_unit" -> CompileUnit(s1)
          [] kind = "DW_TAG_structure_type" -> {DeclareNamed(s1, data, statement_id, "vtypes")}
          [] kind = "DW_TAG_union_type" -> {DeclareUnion(s1, data, statement_id)}
          [] kind = "DW_TAG_array_type" -> {MapId(s1, statement_id, Attr(data, "DW_AT_type"))}
          [] kind = "DW_TAG_enumeration_type" -> {DeclareNamed(s1, data, statement_id, "enums")}
          [] kind = "DW_TAG_pointer_type" ->
                {MapId(s1, statement_id, PList(<<PStr("pointer"), TypeOrVoid(data)>>))}
          [] kind = "DW_TAG_base_type" ->
                {LET b == base_type_name(data)
                 IN  MapId(s1, statement_id, IF IsErr(b) THEN b ELSE PList(<<b>>))}
          [] kind \in {"DW_TAG_volatile_type", "DW_TAG_const_type"} ->
                {MapId(s1, statement_id, TypeOrVoid(data))}
          [] kind = "DW_TAG_typedef" -> {MapId(s1, statement_id, Attr(data, "DW_AT_type"))}
          [] kind = "DW_TAG_subroutine_type" ->
                {MapId(s1, statement_id, PList(<<PStr("void")>>))}
          [] kind = "DW_TAG_variable" /\ level = 1 -> {GlobalVariable(s1, data)}
          [] kind = "DW_TAG_subprogram" -> {s1}
          [] kind = "DW_TAG_member" /\ parent_kind = "DW_TAG_structure_type" ->
                {StructMember(s1, data, statement_id, parent_name.s)}
          [] kind = "DW_TAG_member" /\ parent_kind = "DW_TAG_union_type" ->
                {UnionMember(s1, data, statement_id, parent_name.s)}
          [] kind = "DW_TAG_enumerator" /\ parent_kind = "DW_TAG_enumeration_type" ->
                {Enumerator(s1, data, parent_name.s)}
          [] kind = "DW_TAG_subrange_type" /\ parent_kind = "DW_TAG_array_type" ->
                {Subrange(s1, data, parent_name.n)}
          [] OTHER -> {s1}

\* line 155: the kinds handed to process_variable
VariableKinds == {"DW_TAG_formal_parameter", "DW_TAG_variable"}

\* a feed_line that hands a line without a header to process_statement too
feed_lineUnmatched(self, line) ==
    IF line.kind \in VariableKinds
    THEN {process_variable(self, line.data)}
    ELSE process_statement(self, line.kind, line.level, line.data, line.id)

\* a feed_line without the dispatch of line 155: every line with a header
\* goes to process_statement
feed_lineStatementsOnly(self, line) ==
    IF ~line.hdr THEN {self}
    ELSE process_statement(self, line.kind, line.level, line.data, line.id)

\* lines 134-158
feed_line(self, line) ==
    IF ~line.hdr THEN {self}
    ELSE IF line.kind \in VariableKinds
    THEN {process_variable(self, line.data)}
    ELSE process_statement(self, line.kind, line.level, line.data, line.id)

-----------------------------------------------------------------------------
(* The state machine: parse_dwarf (lines 440-446) over a stream of lines.  *)

Self ==
    [current_level |-> current_level, name_stack |-> name_stack,
     id_to_name |-> id_to_name, all_vtypes |-> all_vtypes, vtypes |-> vtypes,
     enums |-> enums, all_vars |-> all_vars, vars |-> vars,
     all_local_vars |-> all_local_vars, local_vars |-> local_vars, err |-> err]

Load(q) ==
    /\ current_level' = q.current_level
    /\ name_stack' = q.name_stack
    /\ id_to_name' = q.id_to_name
    /\ all_vtypes' = q.all_vtypes
    /\ vtypes' = q.vtypes
    /\ enums' = q.enums
    /\ all_vars' = q.all_vars
    /\ vars' = q.vars
    /\ all_local_vars' = q.all_local_vars
    /\ local_vars' = q.local_vars
    /\ err' = q.err

-----------------------------------------------------------------------------
(* The profile object: Linux32.parse_profile_file over the members of the  *)
(* archive (lines 417-438).                                                *)

VARIABLES
    filelist,        \* the members of profile_file.filelist visited so far
    sys_map,         \* self.sys_map
    profile_vtypes,  \* the local vtypes of parse_profile_file
    abstract_types,  \* self.abstract_types: what parse_profile_file returned
    loading,         \* "visiting", "returned", or the exception raised
    map_fed,         \* parse_system_map: the lines of data gone through
    symbols,         \* parse_system_map: its local sys_map
    map_err          \* parse_system_map: "none", or the exception raised

profile ==
    <<filelist, sys_map, profile_vtypes, abstract_types, loading,
      map_fed, symbols, map_err>>

\* None, and a value that is not None
NoneValue == [none |-> TRUE, v |-> <<>>]
Some(x) == [none |-> FALSE, v |-> x]

\* Linux32 before parse_profile_file's loop: sys_map = None (line 405),
\* vtypes = None (line 420)
ProfileInit ==
    /\ filelist = <<>>
    /\ sys_map = NoneValue
    /\ profile_vtypes = NoneValue
    /\ abstract_types = NoneValue
    /\ loading = "visiting"
    /\ map_fed = <<>>
    /\ symbols = EmptyDict
    /\ map_err = "none"

-----------------------------------------------------------------------------
(* list_head.list_of_type (lines 493-526) over a memory of MaxNodes        *)
(* addresses, each holding a list_head whose pointer leads to one of the   *)
(* addresses or to none.                                                   *)

MaxNodes == 3

VARIABLES
    head,            \* self.obj_offset, or Null when self is not valid
    forward,         \* the argument forward
    links,           \* the pointer list_of_type follows (next when forward,
                     \* prev otherwise) of the list_head at each address
    lst,             \* lst.obj_offset, or Null when lst is not valid
    seen_offsets,    \* seen
    yielded,         \* the obj_offset of lst at each item yielded so far
    walk_pc          \* "idle", "loop", "returned" or "raised"

walk == <<head, forward, links, lst, seen_offsets, yielded, walk_pc>>

Nodes == 1..MaxNodes
Null == 0
Targets == Nodes \cup {Null}
Graphs == [Nodes -> Targets]

\* no call yet
WalkInit ==
    /\ head = Null
    /\ forward = TRUE
    /\ links = [a \in Nodes |-> Null]
    /\ lst = Null
    /\ seen_offsets = {}
    /\ yielded = <<>>
    /\ walk_pc = "idle"

\* DWARFParser.__init__ (lines 65-76), before the first line
Init ==
    /\ current_level = -1
    /\ name_stack = <<>>
    /\ id_to_name = EmptyDict
    /\ all_vtypes = EmptyDict
    /\ vtypes = EmptyDict
    /\ enums = EmptyDict
    /\ all_vars = EmptyDict
    /\ vars = EmptyDict
    /\ all_local_vars = <<>>
    /\ local_vars = <<>>
    /\ err = "none"
    /\ phase = "feeding"
    /\ fed = <<>>
    /\ ProfileInit
    /\ WalkInit

CU == "DW_TAG_compile_unit"

\* dwarfdump prints the entries of a unit in the order of their ids
InOrder(line) ==
    IF fed = <<>> \/ ~line.hdr \/ line.kind = CU THEN TRUE
    ELSE line.id > fed[Len(fed)].id

\* self._parser.feed_line(line) for the next line of the text
FeedLine(lines) ==
    /\ phase = "feeding"
    /\ Len(fed) < MaxLines
    /\ \E line \in lines :
          /\ InOrder(line)
          /\ \E q \in feed_line(Self, line) :
                /\ Load(q)
                /\ phase' = IF q.err = "none" THEN "feeding" ELSE "failed"
          /\ fed' = Append(fed, line)
    /\ UNCHANGED profile
    /\ UNCHANGED walk

\* return self._parser.finalize() after the last line
EndOfStream ==
    /\ phase = "feeding"
    /\ \E q \in finalize(Self) :
          /\ Load(q)
          /\ phase' = IF q.err = "none" THEN "done" ELSE "failed"
    /\ UNCHANGED fed
    /\ UNCHANGED profile
    /\ UNCHANGED walk

-----------------------------------------------------------------------------
(* Input lines.                                                            *)

\* a dict literal from a set of <<key, value>> pairs
Data(pairs) ==
    [key \in {p[1] : p \in pairs} |-> (CHOOSE p \in pairs : p[1] = key)[2]]

UnitLine == Line(0, 0, CU, EmptyDict)

BaseInt(id) == Line(1, id, "DW_TAG_base_type", Data({<<"DW_AT_name", AText("int")>>}))

Struct(id, name, size) ==
    Line(1, id, "DW_TAG_structure_type",
         Data({<<"DW_AT_name", AText(name)>>, <<"DW_AT_byte_size", ADec(size)>>}))

AnonStruct(id, size) ==
    Line(1, id, "DW_TAG_structure_type", Data({<<"DW_AT_byte_size", ADec(size)>>}))

Member(id, name, off, type) ==
    Line(2, id, "DW_TAG_member",
         Data({<<"DW_AT_name", AText(name)>>, <<"DW_AT_type", ARef(type)>>,
               <<"DW_AT_data_member_location",
                 AWords(<<AText("DW_OP_plus_uconst"), ADec(off)>>)>>}))

Pointer(id, type) ==
    Line(1, id, "DW_TAG_pointer_type", Data({<<"DW_AT_type", ARef(type)>>}))

\* <1><id><DW_TAG_pointer_type> with no DW_AT_type: a pointer to void
VoidPointer(id) == Line(1, id, "DW_TAG_pointer_type", EmptyDict)

\* <1><id><DW_TAG_variable> DW_AT_name<name> DW_AT_type<<type>>
\*   DW_AT_location<DW_OP_addr 0x...>
Variable(id, name, type, addr) ==
    Line(1, id, "DW_TAG_variable",
         Data({<<"DW_AT_name", AText(name)>>, <<"DW_AT_type", ARef(type)>>,
               <<"DW_AT_location", AWords(<<AText("DW_OP_addr"), addr>>)>>}))

\* units of a base type, a struct A with members of it, a pointer to A and
\* a global variable; reference 8 is never defined
LayoutLines ==
    {UnitLine, BaseInt(1), Struct(2, "A", 4), Struct(2, "A", 8),
     Member(3, "x", 0, 1), Member(3, "x", 0, 9),
     Member(4, "y", 4, 5), Member(4, "y", 4, 1),
     Pointer(5, 2), Variable(6, "g", 2, AHex(4096)), Variable(6, "g", 2, ADec(4096)),
     Member(7, "z", 8, 8), BaseInt(9)}

Next == FeedLine(LayoutLines) \/ EndOfStream

Spec == Init /\ [][Next]_state

-----------------------------------------------------------------------------
(* Reading the state against the lines fed.                                *)

\* a finalize call has just returned: parse_dwarf's last one, or the one a
\* compile-unit line made
Finalized ==
    \/ phase = "done"
    \/ phase = "feeding" /\ fed # <<>> /\ fed[Len(fed)].hdr /\ fed[Len(fed)].kind = CU

IsKind(line, kind) == line.hdr /\ line.kind = kind

\* the index of the first line of the unit that line e belongs to
UnitStart(e) ==
    LET cus == {j \in 1..e : IsKind(fed[j], CU)}
    IN  IF cus = {} THEN 1 ELSE CHOOSE j \in cus : \A i \in cus : i <= j

\* the last line of the unit whose finalize has just returned
FinalizedEnd ==
    IF phase = "done" THEN Len(fed) ELSE Len(fed) - 1

\* v holds no reference string, at any depth
RECURSIVE NoRef(_)
NoRef(v) ==
    /\ v.k # "ref"
    /\ v.k = "list" => \A i \in 1..Len(v.l) : NoRef(v.l[i])

\* every member value of the cumulative layouts, every cumulative global
AllMembers == UNION {{all_vtypes[t].members[m] : m \in DOMAIN all_vtypes[t].members}
                        : t \in DOMAIN all_vtypes}
AllGlobals == {all_vars[g] : g \in DOMAIN all_vars}

\* C1: once finalize has returned, no member type of a cumulative layout
\* and no cumulative global variable holds an unresolved reference at any
\* depth, and resolve gives each of them back unchanged.
C1_FullyResolved ==
    Finalized =>
        \A v \in AllMembers \cup AllGlobals :
            NoRef(v) /\ resolve(id_to_name, v, {}) = v

\* a member that referred forward to a pointer to a struct has been merged
C1_Witness ==
    /\ phase = "done"
    /\ \E i \in 1..Len(fed) : fed[i] = Member(4, "y", 4, 5)
    /\ "A" \in DOMAIN all_vtypes
    /\ "y" \in DOMAIN all_vtypes["A"].members
    /\ all_vtypes["A"].members["y"] =
          PList(<<PInt(4), PList(<<PStr("pointer"), PList(<<PStr("A")>>)>>)>>)


Has(line, key) == key \in DOMAIN line.data

\* a struct line that stores a layout: it has a byte size and is no declaration
IsStructDef(line) ==
    /\ IsKind(line, "DW_TAG_structure_type")
    /\ Has(line, "DW_AT_name") /\ Has(line, "DW_AT_byte_size")
    /\ ~Has(line, "DW_AT_declaration")

\* a member line with a name, an offset token and a type reference, one
\* level below the line at index a
IsMemberOf(line, a) ==
    /\ IsKind(line, "DW_TAG_member")
    /\ line.level = fed[a].level + 1
    /\ Has(line, "DW_AT_name") /\ Has(line, "DW_AT_type")
    /\ Has(line, "DW_AT_data_member_location")
    /\ ~Has(line, "DW_AT_bit_size")

\* the member lines that follow the struct line at index a, up to line e
MemberRun(a, e) ==
    {i \in (a + 1)..e : \A j \in (a + 1)..i : IsMemberOf(fed[j], a)}

MemberName(line) == line.data["DW_AT_name"].s
MemberOffset(line) == line.data["DW_AT_data_member_location"].w[2].n
ByteSize(line) == line.data["DW_AT_byte_size"].n

\* the base-type lines of the stream, by id
BaseLines == {i \in 1..Len(fed) : IsKind(fed[i], "DW_TAG_base_type")}

\* The input of C2: one struct with a byte size, its members right after
\* it, each with a name of its own and a reference to a base type of the
\* unit, and around them only base types (and the unit's opening line).
C2_Input(a) ==
    /\ IsStructDef(fed[a])
    /\ \A i \in 1..Len(fed) :
          \/ i = a
          \/ i \in MemberRun(a, Len(fed))
          \/ i \in BaseLines /\ fed[i].level = fed[a].level
          \/ i = 1 /\ IsKind(fed[i], CU)
    /\ \A i \in MemberRun(a, Len(fed)) :
          /\ \E b \in BaseLines : fed[b].id = fed[i].data["DW_AT_type"].n
          /\ \A j \in MemberRun(a, Len(fed)) :
                MemberName(fed[i]) = MemberName(fed[j]) => i = j

\* C2: one finalize pass over such a unit gives the struct's cumulative
\* layout its declared byte size and exactly its members, each at its offset
\* with the resolved base-type name, wherever the base type's line stands.
C2_LayoutOfUnit ==
    \A a \in 1..Len(fed) :
        (phase = "done" /\ C2_Input(a)) =>
            LET name == MemberName(fed[a])
                run == MemberRun(a, Len(fed))
            IN  /\ name \in DOMAIN all_vtypes
                /\ all_vtypes[name].size = ByteSize(fed[a])
                /\ DOMAIN all_vtypes[name].members = {MemberName(fed[i]) : i \in run}
                /\ \A i \in run :
                      all_vtypes[name].members[MemberName(fed[i])] =
                          PList(<<PInt(MemberOffset(fed[i])), PList(<<PStr("int")>>)>>)

\* two members, one of a base type fed before the struct and one of a base
\* type fed after it
C2_Witness ==
    \E a \in 1..Len(fed) :
        /\ phase = "done" /\ C2_Input(a)
        /\ Cardinality(MemberRun(a, Len(fed))) = 2
        /\ \E b \in BaseLines : b < a
        /\ \E b \in BaseLines : b > a
        /\ \E i \in MemberRun(a, Len(fed)) : fed[i].data["DW_AT_type"].n > fed[a].id

\* the struct lines named name that store a layout, among lines lo..hi
DefsOf(name, lo, hi) ==
    {i \in lo..hi : IsStructDef(fed[i]) /\ MemberName(fed[i]) = name}

\* C3: when the unit just finalized and an earlier unit both define a
\* layout of one name, the cumulative layout has the byte size and the
\* members of the later unit's definition and none of the earlier one's.
C3_LaterUnitWins ==
    Finalized =>
        LET e == FinalizedEnd
            lo == IF e >= 1 THEN UnitStart(e) ELSE 1
        IN  \A name \in {"A"} :
                (DefsOf(name, lo, e) # {} /\ DefsOf(name, 1, lo - 1) # {}) =>
                    LET a == CHOOSE i \in DefsOf(name, lo, e) :
                                 \A j \in DefsOf(name, lo, e) : j <= i
                        run == MemberRun(a, e)
                    IN  /\ name \in DOMAIN all_vtypes
                        /\ all_vtypes[name].size = ByteSize(fed[a])
                        /\ DOMAIN all_vtypes[name].members =
                               {MemberName(fed[i]) : i \in run}
                        /\ \A i \in run :
                              all_vtypes[name].members[MemberName(fed[i])].l[1] =
                                  PInt(MemberOffset(fed[i]))

\* the earlier unit gave A a member x, the later unit defines A without it
C3_Witness ==
    /\ phase = "done"
    /\ LET lo == UnitStart(Len(fed))
       IN  /\ lo > 1
           /\ DefsOf("A", lo, Len(fed)) # {}
           /\ \E a \in DefsOf("A", 1, lo - 1) :
                 /\ \E i \in MemberRun(a, lo - 1) : MemberName(fed[i]) = "x"
                 /\ ByteSize(fed[a]) # all_vtypes["A"].size
           /\ \A i \in lo..Len(fed) :
                 IsKind(fed[i], "DW_TAG_member") => MemberName(fed[i]) # "x"
           /\ "x" \notin DOMAIN all_vtypes["A"].members

\* a variable line of level 1 with a name, a type reference to an id that a
\* line of its unit defines, and a location whose second token is an integer
IsGlobalLine(i) ==
    /\ IsKind(fed[i], "DW_TAG_variable")
    /\ fed[i].level = 1
    /\ Has(fed[i], "DW_AT_name") /\ Has(fed[i], "DW_AT_type")
    /\ Has(fed[i], "DW_AT_location")
    /\ Len(Split(fed[i].data["DW_AT_location"])) >= 2
    /\ ~IsErr(PyInt0(Split(fed[i].data["DW_AT_location"])[2]))
    /\ \E j \in UnitStart(i)..Len(fed) :
          /\ UnitStart(j) = UnitStart(i)
          /\ fed[j].hdr /\ fed[j].id = fed[i].data["DW_AT_type"].n
          /\ fed[j].kind \in {"DW_TAG_base_type", "DW_TAG_structure_type",
                              "DW_TAG_pointer_type"}

\* C9 as claimed: after the closing finalize, every such variable line is
\* in the cumulative global-variable table at its address, type resolved.
C9_GlobalRecorded ==
    \A i \in 1..Len(fed) :
        (phase = "done" /\ IsGlobalLine(i)) =>
            LET name == MemberName(fed[i])
            IN  /\ name \in DOMAIN all_vars
                /\ all_vars[name].l[1] =
                       PyInt0(Split(fed[i].data["DW_AT_location"])[2])
                /\ NoRef(all_vars[name])


-----------------------------------------------------------------------------
(* Dead-type elimination: units of a named struct and anonymous structs    *)
(* whose members refer to one another, directly or through a pointer.      *)

ElimLines ==
    {UnitLine, Struct(1, "A", 4),
     Member(2, "a", 0, 5), Member(2, "a", 0, 9),
     AnonStruct(5, 4), Member(6, "m", 0, 5), Member(6, "m", 0, 7),
     AnonStruct(7, 8), Member(8, "n", 0, 5),
     Pointer(9, 5), Pointer(9, 7)}

NextElim == FeedLine(ElimLines) \/ EndOfStream

SpecElim == Init /\ [][NextElim]_state

\* the names that are leaves of the members of layout v
LeafNames(types, v) ==
    {get_deepest(types[v].members[m]).s :
        m \in {x \in DOMAIN types[v].members : get_deepest(types[v].members[x]).k = "str"}}

\* the names reached from the set S by following member leaves
RECURSIVE Reach(_)
Reach(S) ==
    LET nxt == S \cup UNION {LeafNames(all_vtypes, v) : v \in S \cap DOMAIN all_vtypes}
    IN  IF nxt = S THEN S ELSE Reach(nxt)

\* the leaves of the named layouts' members and of the globals' types
Roots ==
    UNION {LeafNames(all_vtypes, v) : v \in {x \in DOMAIN all_vtypes : ~IsSynthetic(x)}}
    \cup {get_deepest(all_vars[g].l[2]).s :
            g \in {x \in DOMAIN all_vars : get_deepest(all_vars[x].l[2]).k = "str"}}

\* C4 as claimed: after finalize every __unnamed_* layout left in the
\* cumulative table is reached from a layout of another name or from a
\* global's type; synthetic layouts that only refer to each other are gone.
C4_SyntheticReachable ==
    Finalized =>
        \A v \in DOMAIN all_vtypes : IsSynthetic(v) => v \in Reach(Roots)

\* the step is a finalize call that returned
FinalizeStep == Finalized' /\ err' = "none"

\* C5: the elimination of a finalize call removes no layout whose name does
\* not start with __unnamed_, and no synthetic layout that is the deepest
\* leaf of a member of a layout that is still there after it.
C5_ElimKeeps ==
    [][FinalizeStep =>
          \A q \in BeforeElim(Self) :
              \A v \in DOMAIN q.all_vtypes :
                  /\ ~IsSynthetic(v) => v \in DOMAIN all_vtypes'
                  /\ (\E y \in DOMAIN all_vtypes' \cap DOMAIN q.all_vtypes :
                         v \in LeafNames(q.all_vtypes, y))
                       => v \in DOMAIN all_vtypes']_state

\* one synthetic layout was kept as the leaf of a member of A (directly or
\* behind a pointer), another was removed
C5_Witness ==
    /\ phase = "done"
    /\ "A" \in DOMAIN all_vtypes
    /\ \E u \in DOMAIN all_vtypes : IsSynthetic(u) /\ u \in LeafNames(all_vtypes, "A")
    /\ \E w \in DOMAIN vtypes : IsSynthetic(w) /\ w \notin DOMAIN all_vtypes

\* C6: the table the elimination loop of a finalize call exits with is a
\* fixed point: it is the set of layouts finalize returns, and one more pass
\* (or one more run of the loop) over it removes nothing and changes no
\* layout.
C6_ElimFixedPoint ==
    [][FinalizeStep =>
          \A q \in BeforeElim(Self) :
              LET exit == ElimLoop(q.all_vtypes, q.all_vars)
              IN  /\ DOMAIN all_vtypes' = DOMAIN exit
                  /\ ElimPass(exit, q.all_vars) = exit
                  /\ ElimLoop(exit, q.all_vars) = exit]_state

\* two synthetic layouts were removed, one of them the leaf of a member of
\* the other: the second pass removed what the first had to keep
C6_Witness ==
    /\ phase = "done"
    /\ \E u, w \in DOMAIN vtypes \ DOMAIN all_vtypes :
          /\ u # w /\ IsSynthetic(u) /\ IsSynthetic(w)
          /\ w \in LeafNames(vtypes, u)
          /\ w \notin LeafNames(vtypes, w)


-----------------------------------------------------------------------------
(* Enum merge: units of an enumeration, its enumerators, and a struct      *)
(* whose members are of the enum, of a pointer to it or of an array of it. *)

Enum(id, name, size) ==
    Line(1, id, "DW_TAG_enumeration_type",
         Data({<<"DW_AT_name", AText(name)>>, <<"DW_AT_byte_size", ADec(size)>>}))

EnumeratorLine(id, name, value) ==
    Line(2, id, "DW_TAG_enumerator",
         Data({<<"DW_AT_name", AText(name)>>, <<"DW_AT_const_value", value>>}))

Array(id, type) ==
    Line(1, id, "DW_TAG_array_type", Data({<<"DW_AT_type", ARef(type)>>}))

SubrangeLine(id, bound) ==
    Line(2, id, "DW_TAG_subrange_type", Data({<<"DW_AT_upper_bound", bound>>}))

EnumLines ==
    {UnitLine, Enum(1, "E", 4), Enum(1, "E", 3),
     EnumeratorLine(2, "a", ADec(0)), EnumeratorLine(3, "b", ADec(1)),
     EnumeratorLine(3, "b", ADec(0)),
     Struct(4, "A", 8), Member(5, "x", 0, 1), Member(6, "p", 4, 7), Member(6, "p", 4, 8),
     Pointer(7, 1), VoidPointer(7), Array(8, 1), SubrangeLine(9, ADec(2))}

NextEnum == FeedLine(EnumLines) \/ EndOfStream

SpecEnum == Init /\ [][NextEnum]_state

\* C7: after the enum merge of a finalize call (enum byte sizes among 1, 2, 4
\* and 8, or the call raises), no member of a cumulative layout has a
\* deepest leaf that names an entry of the enum table, and merging again
\* leaves every member as it is.
C7_EnumMergeOnce ==
    Finalized =>
        \A memb \in AllMembers :
            /\ LET d == get_deepest(memb)
               IN  ~(d.k = "str" /\ d.s \in DOMAIN enums)
            /\ \A pick \in Picks(enums) : Inline(memb, enums, pick) = memb

\* the enum was merged into a member behind a pointer and into one behind
\* an array
IsEnumeration(v) == v.k = "list" /\ Len(v.l) = 2 /\ v.l[1] = PStr("Enumeration")

C7_Witness ==
    /\ phase = "done"
    /\ DOMAIN enums # {}
    /\ \E memb \in AllMembers :
          /\ memb.l[2].k = "list" /\ Len(memb.l[2].l) = 2
          /\ memb.l[2].l[1] = PStr("pointer")
          /\ IsEnumeration(memb.l[2].l[2])


-----------------------------------------------------------------------------
(* Bitfields: a struct and members that carry DW_AT_byte_size,             *)
(* DW_AT_bit_offset and DW_AT_bit_size of any non-negative value.          *)

BitMember(id, name, bytes, bit_offset, bit_size) ==
    Line(2, id, "DW_TAG_member",
         Data({<<"DW_AT_name", AText(name)>>,
               <<"DW_AT_byte_size", ADec(bytes)>>,
               <<"DW_AT_bit_offset", ADec(bit_offset)>>,
               <<"DW_AT_bit_size", ADec(bit_size)>>,
               <<"DW_AT_data_member_location",
                 AWords(<<AText("DW_OP_plus_uconst"), ADec(0)>>)>>}))

ByteSizes == {0, 1, 2}
BitOffsets == {0, 3, 4, 8, 17}
BitSizes == {0, 1, 4, 5, 16}

BitsLines ==
    {Struct(1, "A", 4)}
    \cup {BitMember(2, "x", b, o, z) : b \in ByteSizes, o \in BitOffsets, z \in BitSizes}
    \cup {BitMember(3, "y", b, o, z) : b \in ByteSizes, o \in BitOffsets, z \in BitSizes}

NextBits == FeedLine(BitsLines) \/ EndOfStream

SpecBits == Init /\ [][NextBits]_state

\* dict[key]
DictGet(dict, key) == (CHOOSE p \in dict.d : p[1] = PStr(key))[2]

IsBitField(v) == v.k = "list" /\ Len(v.l) = 2 /\ v.l[1] = PStr("BitField")

\* the line just fed is a struct member with the three bitfield attributes,
\* and feeding it raised nothing
BitMemberStored ==
    /\ fed # <<>> /\ err = "none" /\ phase = "feeding"
    /\ IsKind(fed[Len(fed)], "DW_TAG_member")
    /\ Has(fed[Len(fed)], "DW_AT_bit_size") /\ Has(fed[Len(fed)], "DW_AT_bit_offset")
    /\ Len(name_stack) >= 2
    /\ name_stack[Len(name_stack) - 1].kind = "DW_TAG_structure_type"

\* C8: every bitfield descriptor that a struct member line with bit-size,
\* bit-offset and byte-size attributes leaves in the layout has
\* start_bit < end_bit <= byte_size * 8.
C8_BitFieldBounds ==
    /\ BitMemberStored =>
          LET line == fed[Len(fed)]
              memb == vtypes[name_stack[Len(name_stack) - 1].name.s]
                          .members[MemberName(line)]
              args == memb.l[2].l[2]
          IN  /\ IsBitField(memb.l[2])
              /\ DictGet(args, "start_bit").n < DictGet(args, "end_bit").n
              /\ DictGet(args, "end_bit").n <= ByteSize(line) * 8
    /\ \A t \in DOMAIN vtypes : \A m \in DOMAIN vtypes[t].members :
          IsBitField(vtypes[t].members[m].l[2]) =>
              DictGet(vtypes[t].members[m].l[2].l[2], "start_bit").n
                  < DictGet(vtypes[t].members[m].l[2].l[2], "end_bit").n

\* a descriptor was stored for a field of bits 3..7 of one byte, and one
\* for a field that lies beyond its storage
C8_Witness ==
    /\ BitMemberStored
    /\ \E m \in DOMAIN vtypes["A"].members :
          LET args == vtypes["A"].members[m].l[2].l[2]
          IN  DictGet(args, "start_bit").n = 0 /\ DictGet(args, "end_bit").n = 5
    /\ \E m \in DOMAIN vtypes["A"].members :
          DictGet(vtypes["A"].members[m].l[2].l[2], "start_bit").n < 0

-----------------------------------------------------------------------------
(* Scope tracking: statement lines of any level, of kinds that touch no    *)
(* table.                                                                  *)

ScopeKinds == {"DW_TAG_subprogram", "DW_TAG_lexical_block"}

ScopeLines ==
    {Line(lv, Len(fed) + 1, kind, EmptyDict) : lv \in 0..MaxLevel, kind \in ScopeKinds}

NextScope == FeedLine(ScopeLines) \/ EndOfStream

SpecScope == Init /\ [][NextScope]_state

\* the lines before the last whose level is strictly less than the last's
LowerBefore ==
    {j \in 1..(Len(fed) - 1) : fed[j].level < fed[Len(fed)].level}

\* C10 as claimed: after each statement line r, of any level, the top frame
\* is r and the parent handed to the record processor is absent or is the
\* most recent earlier line whose level is strictly less than r's.
C10_ParentIsEnclosing ==
    (phase = "feeding" /\ fed # <<>>) =>
        LET r == fed[Len(fed)]
            top == name_stack[Len(name_stack)]
            parent == Parent(Self)
        IN  /\ top = Frame(r.kind, PSid(r.id))
            /\ \/ parent = NoParent
               \/ /\ LowerBefore # {}
                  /\ LET j == CHOOSE i \in LowerBefore : \A x \in LowerBefore : x <= i
                     IN  parent = Frame(fed[j].kind, PSid(fed[j].id))

-----------------------------------------------------------------------------
(* Statements without a parent: declarations at level 1 and members,       *)
(* enumerators and subranges at levels that leave the stack with one       *)
(* frame or with two.                                                      *)

\* the line as the next statement of the text, at level lv
Numbered(line, lv) == [line EXCEPT !.level = lv, !.id = Len(fed) + 1]

ChildKinds == {"DW_TAG_member", "DW_TAG_enumerator", "DW_TAG_subrange_type"}

ParentLevels == {0, 2}

ParentLines ==
    {Numbered(Struct(0, "A", 4), 1), Numbered(Enum(0, "E", 4), 1),
     Numbered(Array(0, 1), 1)}
    \cup {Numbered(line, lv) :
            line \in {Member(0, "x", 0, 1), EnumeratorLine(0, "k", ADec(1)),
                      SubrangeLine(0, ADec(3))},
            lv \in ParentLevels}

NextParent == FeedLine(ParentLines) \/ EndOfStream

SpecParent == Init /\ [][NextParent]_state

\* the tables of the unit and the cumulative ones
Tables ==
    <<id_to_name, all_vtypes, vtypes, enums, all_vars, vars, all_local_vars, local_vars>>

\* the step feeds one more line
Fed == fed' # fed

\* C11: a statement processed while the scope stack holds fewer than two
\* frames finds parent kind and parent name absent and raises nothing; a
\* member, an enumerator or a subrange processed so changes no table.
C11_NoParentNoEffect ==
    [][(Fed /\ fed'[Len(fed')].hdr /\ Len(name_stack') < 2) =>
          /\ err' = "none"
          /\ Parent(Self)' = NoParent
          /\ fed'[Len(fed')].kind \in ChildKinds => UNCHANGED Tables]_state

\* a member line was fed after struct A at a level that cut the stack to
\* one frame
C11_Witness ==
    /\ fed # <<>> /\ err = "none"
    /\ IsKind(fed[Len(fed)], "DW_TAG_member")
    /\ Len(name_stack) = 1
    /\ "A" \in DOMAIN vtypes
    /\ \E i \in 1..Len(fed) : IsKind(fed[i], "DW_TAG_subrange_type") /\ fed[i].level = 0

-----------------------------------------------------------------------------
(* Identifiers across units (checked under Spec).                          *)

\* the kinds of LayoutLines that put their id in the identifier index
IndexKinds == {"DW_TAG_base_type", "DW_TAG_structure_type", "DW_TAG_pointer_type"}

\* the lines among lo..e that define id
UnitDefs(id, lo, e) ==
    {j \in lo..e : fed[j].hdr /\ fed[j].id = id /\ fed[j].kind \in IndexKinds}

\* id, and what a pointer of that id points to, are defined among lo..e
ResolvesInUnit(id, lo, e) ==
    /\ UnitDefs(id, lo, e) # {}
    /\ \A j \in UnitDefs(id, lo, e) :
          (IsKind(fed[j], "DW_TAG_pointer_type") /\ Has(fed[j], "DW_AT_type")) =>
              UnitDefs(fed[j].data["DW_AT_type"].n, lo, e) # {}

\* the last line among lo..e that stores a layout named name
LastDef(name, lo, e) ==
    CHOOSE i \in DefsOf(name, lo, e) : \A j \in DefsOf(name, lo, e) : j <= i

\* C12: once a unit line is processed the unit's type table, variable table
\* and identifier index are empty, and a finalize call returns only when
\* every member reference of its unit is to an id defined in that unit: a
\* reference to an id that only an earlier unit defines makes it fail.
C12_NoLeakAcrossUnits ==
    /\ (phase = "feeding" /\ fed # <<>> /\ IsKind(fed[Len(fed)], CU)) =>
          /\ vtypes = EmptyDict
          /\ vars = EmptyDict
          /\ id_to_name = EmptyDict
    /\ (Finalized /\ FinalizedEnd >= 1) =>
          LET e == FinalizedEnd
              lo == UnitStart(e)
          IN  DefsOf("A", lo, e) # {} =>
                  \A i \in MemberRun(LastDef("A", lo, e), e) :
                      ResolvesInUnit(fed[i].data["DW_AT_type"].n, lo, e)

\* the closing finalize raised KeyError for a member of the second unit that
\* refers to a base type defined in the first unit only
C12_Witness ==
    /\ phase = "failed" /\ err = "KeyError"
    /\ fed # <<>> /\ ~IsKind(fed[Len(fed)], CU)
    /\ LET e == Len(fed)
           lo == UnitStart(e)
       IN  /\ lo > 1 /\ IsKind(fed[lo], CU)
           /\ DefsOf("A", lo, e) # {}
           /\ \E i \in MemberRun(LastDef("A", lo, e), e) :
                 /\ UnitDefs(fed[i].data["DW_AT_type"].n, lo, e) = {}
                 /\ \E j \in UnitDefs(fed[i].data["DW_AT_type"].n, 1, lo - 1) :
                       IsKind(fed[j], "DW_TAG_base_type")

-----------------------------------------------------------------------------
(* Anonymous aggregates of one id in two units.                            *)

CollideLines ==
    {UnitLine, BaseInt(1), Struct(2, "A", 4), Member(3, "a", 0, 5),
     AnonStruct(5, 4), AnonStruct(5, 8), Member(6, "m", 0, 1)}

NextCollide == FeedLine(CollideLines) \/ EndOfStream

SpecCollide == Init /\ [][NextCollide]_state

\* the last line of the unit that line i belongs to
UnitEnd(i) ==
    LET cus == {j \in (i + 1)..Len(fed) : IsKind(fed[j], CU)}
    IN  IF cus = {} THEN Len(fed) ELSE (CHOOSE j \in cus : \A x \in cus : j <= x) - 1

\* the lines among lo..e that store the layout of an anonymous struct of id r
AnonDefs(r, lo, e) ==
    {j \in lo..e : /\ IsKind(fed[j], "DW_TAG_structure_type")
                   /\ fed[j].id = r
                   /\ ~Has(fed[j], "DW_AT_name") /\ Has(fed[j], "DW_AT_byte_size")
                   /\ ~Has(fed[j], "DW_AT_declaration")}

\* the last of a non-empty set of line indexes
Last(S) == CHOOSE i \in S : \A j \in S : j <= i

\* C13 as claimed: when struct A of an earlier unit, not defined again since,
\* has a member of the anonymous struct of id r of its unit, and the unit
\* just finalized defines an anonymous struct of another byte size under the
\* same id r, the member still names a layout with the earlier unit's byte
\* size and members.
C13_NoCollision ==
    (Finalized /\ err = "none" /\ FinalizedEnd >= 1) =>
        LET e == FinalizedEnd
            lo == UnitStart(e)
        IN  \A a \in DefsOf("A", 1, lo - 1) :
                (a = Last(DefsOf("A", 1, e))) =>
                    \A i \in MemberRun(a, UnitEnd(a)) :
                        LET r == fed[i].data["DW_AT_type"].n
                            d1 == AnonDefs(r, UnitStart(a), UnitEnd(a))
                            d2 == AnonDefs(r, lo, e)
                            nm == UnnamedName(r)
                        IN  (/\ d1 # {} /\ d2 # {}
                             /\ ByteSize(fed[Last(d1)]) # ByteSize(fed[Last(d2)])) =>
                                /\ all_vtypes["A"].members[MemberName(fed[i])].l[2]
                                       = PList(<<PStr(nm)>>)
                                /\ nm \in DOMAIN all_vtypes
                                /\ all_vtypes[nm].size = ByteSize(fed[Last(d1)])
                                /\ DOMAIN all_vtypes[nm].members =
                                       {MemberName(fed[j]) :
                                           j \in MemberRun(Last(d1), UnitEnd(a))}

-----------------------------------------------------------------------------
(* Local variables and formal parameters over several units.               *)

\* <2><id><kind> DW_AT_name<name> DW_AT_decl_file<1 f.c>
\*   DW_AT_decl_line<lineno> DW_AT_type<<type>>
Local(id, kind, name, lineno, type) ==
    Line(2, id, kind,
         Data({<<"DW_AT_name", AText(name)>>, <<"DW_AT_type", ARef(type)>>,
               <<"DW_AT_decl_line", ADec(lineno)>>,
               <<"DW_AT_decl_file", AWords(<<ADec(1), AText("f.c")>>)>>}))

LocalLines ==
    {UnitLine, BaseInt(1),
     Local(2, "DW_TAG_variable", "i", 10, 1),
     Local(3, "DW_TAG_formal_parameter", "p", 11, 1),
     Local(4, "DW_TAG_variable", "j", 12, 1),
     Variable(5, "g", 1, AHex(4096))}

NextLocal == FeedLine(LocalLines) \/ EndOfStream

SpecLocal == Init /\ [][NextLocal]_state

\* a line that process_variable appends to local_vars
IsAccepted(line) ==
    /\ line.hdr /\ line.kind \in VariableKinds
    /\ Has(line, "DW_AT_name") /\ Has(line, "DW_AT_decl_line") /\ Has(line, "DW_AT_type")

\* the accepted lines of the text, in input order
AcceptedLines == SelectSeq(fed, IsAccepted)

\* C14 as claimed: after the closing finalize of a parsed stream, the
\* cumulative local-variable list holds every accepted variable or parameter
\* line exactly once, in input order, with its type resolved.
C14_LocalsOnce ==
    phase = "done" =>
        /\ Len(all_local_vars) = Len(AcceptedLines)
        /\ \A k \in 1..Len(AcceptedLines) :
              /\ all_local_vars[k].name = MemberName(AcceptedLines[k])
              /\ all_local_vars[k].lineno = AcceptedLines[k].data["DW_AT_decl_line"].n
              /\ NoRef(all_local_vars[k].tp)

-----------------------------------------------------------------------------
(* A reference to an id the unit never defines (checked under Spec).       *)

\* the step is a finalize call: the closing one, or a unit line's
FinalizeCall ==
    \/ fed' = fed /\ phase' # phase
    \/ Fed /\ IsKind(fed'[Len(fed')], CU)

\* some member of the unit's layouts refers to an id that is not in the index
Unresolvable ==
    \E t \in DOMAIN vtypes : \E m \in DOMAIN vtypes[t].members :
        resolve(id_to_name, vtypes[t].members[m], {}) = PErr("KeyError")

\* C15: finalize called on a unit one of whose member types refers to an id
\* absent from the identifier index raises KeyError, and the cumulative
\* layout table is as it was before the call.
C15_UndefinedRefFails ==
    [][(FinalizeCall /\ Unresolvable) =>
          /\ err' = "KeyError" /\ phase' = "failed"
          /\ all_vtypes' = all_vtypes]_state

\* the closing finalize failed on the second unit's struct A, whose member
\* still holds its reference, and the table keeps the first unit's A
C15_Witness ==
    /\ phase = "failed" /\ err = "KeyError"
    /\ "A" \in DOMAIN all_vtypes /\ "A" \in DOMAIN vtypes
    /\ vtypes["A"].size # all_vtypes["A"].size
    /\ \E m \in DOMAIN vtypes["A"].members : ~NoRef(vtypes["A"].members[m])

-----------------------------------------------------------------------------
(* Statements that match no branch: a kind the parser does not know, and    *)
(* members, enumerators and subranges under a parent of another kind.      *)

Block(lv) == Numbered(Line(0, 0, "DW_TAG_lexical_block", EmptyDict), lv)

OtherLines ==
    {Numbered(Struct(0, "A", 4), 1), Numbered(Enum(0, "E", 4), 1),
     Numbered(Array(0, 1), 1), Block(1), Block(2),
     Numbered(Member(0, "x", 0, 1), 2),
     Numbered(EnumeratorLine(0, "k", ADec(1)), 2),
     Numbered(SubrangeLine(0, ADec(3)), 2)}

NextOther == FeedLine(OtherLines) \/ EndOfStream

SpecOther == Init /\ [][NextOther]_state

\* the kinds that a branch of process_statement names
RecognisedKinds ==
    {"DW_TAG_compile_unit", "DW_TAG_structure_type", "DW_TAG_union_type",
     "DW_TAG_array_type", "DW_TAG_enumeration_type", "DW_TAG_pointer_type",
     "DW_TAG_base_type", "DW_TAG_volatile_type", "DW_TAG_const_type",
     "DW_TAG_typedef", "DW_TAG_subroutine_type", "DW_TAG_variable",
     "DW_TAG_subprogram", "DW_TAG_member", "DW_TAG_enumerator",
     "DW_TAG_subrange_type"}

\* the parent kinds under which a line of kind is handled
ParentKinds(kind) ==
    CASE kind = "DW_TAG_member" -> {"DW_TAG_structure_type", "DW_TAG_union_type"}
      [] kind = "DW_TAG_enumerator" -> {"DW_TAG_enumeration_type"}
      [] kind = "DW_TAG_subrange_type" -> {"DW_TAG_array_type"}
      [] OTHER -> {}

\* the line is a statement that no branch handles, given the parent frame
Unhandled(line, parent) ==
    /\ line.hdr /\ line.kind \notin VariableKinds
    /\ \/ line.kind \notin RecognisedKinds
       \/ line.kind \in ChildKinds /\ parent.kind \notin ParentKinds(line.kind)

\* C16: a statement of an unknown kind, or a member, enumerator or subrange
\* under a parent of another kind, raises nothing and changes no table of
\* the unit and no cumulative table; the scope tracker alone moves on.
C16_UnhandledNoEffect ==
    [][(Fed /\ Unhandled(fed'[Len(fed')], Parent(Self)')) =>
          /\ err' = "none"
          /\ UNCHANGED Tables
          /\ current_level' = fed'[Len(fed')].level
          /\ name_stack'[Len(name_stack')] =
                 Frame(fed'[Len(fed')].kind, PSid(fed'[Len(fed')].id))]_state

\* with struct A, enum E and an array in the tables, a member was fed under
\* the enum or the array or a block, and a block line was fed too
C16_Witness ==
    /\ fed # <<>> /\ err = "none" /\ phase = "feeding"
    /\ "A" \in DOMAIN vtypes /\ "E" \in DOMAIN enums /\ id_to_name # EmptyDict
    /\ Unhandled(fed[Len(fed)], Parent(Self))
    /\ IsKind(fed[Len(fed)], "DW_TAG_member")
    /\ \E i \in 1..Len(fed) : IsKind(fed[i], "DW_TAG_lexical_block")

-----------------------------------------------------------------------------
(* Lines without a header among the lines of two units.                    *)

\* a line that dwarf_header_regex does not match at its start, whatever
\* key<value> text it holds
Fragment(pairs) == [Noise EXCEPT !.data = Data(pairs)]

NoiseLines ==
    {Noise, Fragment({<<"DW_AT_name", AText("A")>>, <<"DW_AT_byte_size", ADec(8)>>}),
     UnitLine, BaseInt(1), Struct(2, "A", 4), Member(3, "x", 0, 1)}

NextNoise == FeedLine(NoiseLines) \/ EndOfStream

SpecNoise == Init /\ [][NextNoise]_state

\* C17: feeding a line that does not begin with a <depth><id><kind> header
\* raises nothing and leaves the whole parser state as it was.
C17_NoiseIgnored ==
    [][(Fed /\ ~fed'[Len(fed')].hdr) =>
          /\ err' = "none" /\ phase' = "feeding"
          /\ UNCHANGED <<current_level, name_stack>>
          /\ UNCHANGED Tables]_state

\* a headerless line was fed inside struct A of a second unit, after the
\* first unit's A was merged
C17_Witness ==
    /\ fed # <<>> /\ ~fed[Len(fed)].hdr
    /\ fed[Len(fed)].data # EmptyDict
    /\ Len(name_stack) = 3
    /\ "A" \in DOMAIN all_vtypes
    /\ "A" \in DOMAIN vtypes /\ "x" \in DOMAIN vtypes["A"].members

-----------------------------------------------------------------------------
(* Forward declarations: struct, union and enumeration lines with          *)
(* DW_AT_declaration and no DW_AT_byte_size, among definitions.            *)

AggregateKinds ==
    {"DW_TAG_structure_type", "DW_TAG_union_type", "DW_TAG_enumeration_type"}

\* <1><id><kind> DW_AT_name<name> DW_AT_declaration<yes(1)>
Declaration(kind, name) ==
    Numbered(Line(1, 0, kind,
                  Data({<<"DW_AT_name", AText(name)>>,
                        <<"DW_AT_declaration", AText("yes(1)")>>})), 1)

\* <1><id><kind> DW_AT_name<name> DW_AT_byte_size<size>
Definition(kind, name, size) ==
    Numbered(Line(1, 0, kind,
                  Data({<<"DW_AT_name", AText(name)>>, <<"DW_AT_byte_size", ADec(size)>>})), 1)

DeclLines ==
    {Declaration(kind, "T") : kind \in AggregateKinds}
    \cup {Definition(kind, "D", 4) : kind \in AggregateKinds}

NextDecl == FeedLine(DeclLines) \/ EndOfStream

SpecDecl == Init /\ [][NextDecl]_state

\* C18 as claimed: a struct, union or enumeration line without a byte size
\* maps its id to its name, stores no layout and no enum entry, and raises
\* nothing, whichever of the three kinds it is.
C18_ForwardDeclaration ==
    [][(/\ Fed
        /\ fed'[Len(fed')].kind \in AggregateKinds
        /\ ~Has(fed'[Len(fed')], "DW_AT_byte_size")) =>
          /\ err' = "none"
          /\ id_to_name' = Put(id_to_name, fed'[Len(fed')].id,
                               PList(<<PStr(MemberName(fed'[Len(fed')]))>>))
          /\ vtypes' = vtypes
          /\ enums' = enums]_state

-----------------------------------------------------------------------------
(* Values in extra syntax: enumerators and array bounds whose text is a    *)
(* plain integer, an integer before a parenthesis, or neither.             *)

\* a subrange line without DW_AT_upper_bound
UnboundedSubrange(id) == Line(2, id, "DW_TAG_subrange_type", EmptyDict)

ValueTexts == {ADec(3), AParen(5), AText("junk")}

ValueLines ==
    {Numbered(Enum(0, "E", 4), 1), Numbered(Array(0, 1), 1),
     Numbered(UnboundedSubrange(0), 2)}
    \cup {Numbered(EnumeratorLine(0, "a", v), 2) : v \in ValueTexts}
    \cup {Numbered(SubrangeLine(0, v), 2) : v \in ValueTexts}

NextValue == FeedLine(ValueLines) \/ EndOfStream

SpecValue == Init /\ [][NextValue]_state

\* the text parses neither as an integer nor as an integer before a '('
Unparseable(a) == IsErr(PyInt(a)) /\ IsErr(PyInt(BeforeParen(a)))

\* the last line fed is of kind, under a parent frame of parent_kind
LastUnder(kind, parent_kind) ==
    /\ fed # <<>> /\ IsKind(fed[Len(fed)], kind)
    /\ Parent(Self).kind = parent_kind

\* C19 as claimed: an enumerator under an enumeration whose value parses
\* by neither method is stored in the enum's value map as 0, and nothing
\* is raised.
C19_EnumeratorDefaultsToZero ==
    (/\ LastUnder("DW_TAG_enumerator", "DW_TAG_enumeration_type")
     /\ Unparseable(fed[Len(fed)].data["DW_AT_const_value"])) =>
        /\ err = "none"
        /\ enums[Parent(Self).name.s].values[MemberName(fed[Len(fed)])] = 0

\* the element count the claim gives a subrange line
ClaimedCount(line) ==
    IF ~Has(line, "DW_AT_upper_bound") THEN 0
    ELSE LET ub == line.data["DW_AT_upper_bound"]
         IN  IF ~IsErr(PyInt(ub)) THEN PyInt(ub).n + 1
             ELSE IF ~IsErr(PyInt(BeforeParen(ub))) THEN PyInt(BeforeParen(ub)).n + 1
             ELSE 0

\* C20 as claimed: a subrange under an array makes the array's entry an
\* array descriptor of u+1 elements when the upper bound parses to u, and
\* of 0 elements when the bound is absent or parses by neither method.
C20_SubrangeCount ==
    LastUnder("DW_TAG_subrange_type", "DW_TAG_array_type") =>
        /\ err = "none"
        /\ LET tp == id_to_name[Parent(Self).name.n]
           IN  /\ tp.k = "list" /\ Len(tp.l) = 3
               /\ tp.l[1] = PStr("array")
               /\ tp.l[2] = PInt(ClaimedCount(fed[Len(fed)]))

-----------------------------------------------------------------------------
(* Aliases: typedef, const and volatile lines with and without a type      *)
(* reference, and a struct whose member is of the alias.                   *)

AliasKinds == {"DW_TAG_typedef", "DW_TAG_const_type", "DW_TAG_volatile_type"}

\* <1><id><kind> with no DW_AT_type
Untyped(id, kind) == Line(1, id, kind, EmptyDict)

\* <1><id><kind> DW_AT_type<<type>>
Typed(id, kind, type) == Line(1, id, kind, Data({<<"DW_AT_type", ARef(type)>>}))

AliasLines ==
    {UnitLine, Struct(2, "A", 4), Member(3, "x", 0, 1), BaseInt(5)}
    \cup {Untyped(1, kind) : kind \in AliasKinds}
    \cup {Typed(1, kind, 5) : kind \in AliasKinds}

NextAlias == FeedLine(AliasLines) \/ EndOfStream

SpecAlias == Init /\ [][NextAlias]_state

\* the lines among lo..e of an alias kind, with id r and no DW_AT_type
UntypedDefs(r, lo, e) ==
    {j \in lo..e : /\ fed[j].hdr /\ fed[j].kind \in AliasKinds
                   /\ fed[j].id = r /\ ~Has(fed[j], "DW_AT_type")}

\* the lines among lo..e that put id r in the identifier index
AliasDefs(r, lo, e) ==
    {j \in lo..e : /\ fed[j].hdr /\ fed[j].id = r
                   /\ fed[j].kind \in AliasKinds \cup {"DW_TAG_base_type"}}

Void == PList(<<PStr("void")>>)

\* C21 as claimed: a typedef, const or volatile line without a type
\* reference maps its id to void and raises nothing, and a member that
\* refers to it has type void after finalize, for each of the three kinds.
C21_UntypedAliasIsVoid ==
    /\ (fed # <<>> /\ fed[Len(fed)].hdr /\ fed[Len(fed)].kind \in AliasKinds
          /\ ~Has(fed[Len(fed)], "DW_AT_type")) =>
          /\ err = "none"
          /\ id_to_name[fed[Len(fed)].id] = Void
    /\ (phase = "done" /\ fed # <<>>) =>
          LET e == Len(fed)
              lo == UnitStart(e)
          IN  DefsOf("A", lo, e) # {} =>
                  \A i \in MemberRun(LastDef("A", lo, e), e) :
                      LET r == fed[i].data["DW_AT_type"].n
                      IN  (AliasDefs(r, lo, e) # {}
                           /\ Last(AliasDefs(r, lo, e)) \in UntypedDefs(r, lo, e)) =>
                              all_vtypes["A"].members[MemberName(fed[i])] =
                                  PList(<<PInt(MemberOffset(fed[i])), Void>>)

-----------------------------------------------------------------------------
(* parse_system_map (lines 448-459), one line of data at a time.  A line   *)
(* is the sequence of its whitespace-separated tokens.                     *)

MaxMapLines == 4

\* a token of hexadecimal digits, of value n, and a token that is none
HexWord(n) == [form |-> "hexdigits", s |-> "", n |-> n, w |-> <<>>]
Word(t) == AText(t)

\* the decimal digits of i read in base 16
RECURSIVE HexRead(_)
HexRead(i) == IF i < 10 THEN i ELSE 16 * HexRead(i \div 10) + (i % 10)

\* long(text, 16)
PyLong16(a) ==
    CASE a.form \in {"hexdigits", "hex"} -> PInt(a.n)
      [] a.form = "dec" -> PInt(HexRead(a.n))
      [] OTHER -> PErr("ValueError")

\* lines 453-457, the body of the loop: the outcome [err, map] for one line
system_map_line(map, tokens) ==
    IF Len(tokens) # 3 THEN [err |-> "ValueError", map |-> map]
    ELSE LET address == PyLong16(tokens[1])
             symbol == AttrStr(tokens[3]).s
         IN  IF IsErr(address) THEN [err |-> "none", map |-> map]
             ELSE [err |-> "none", map |-> Put(map, symbol, address.n)]

\* lines 448-459 over the lines i.. of data
RECURSIVE SystemMapFrom(_, _, _)
SystemMapFrom(map, data, i) ==
    IF i > Len(data) THEN [err |-> "none", map |-> map]
    ELSE LET o == system_map_line(map, data[i])
         IN  IF o.err # "none" THEN o ELSE SystemMapFrom(o.map, data, i + 1)

parse_system_map(data) == SystemMapFrom(EmptyDict, data, 1)

\* "ffffffff81000000 T swapper_pg_dir" and the like; a bad address; a line
\* without its symbol; a blank line; a line with a fourth token
MapLines ==
    {<<HexWord(4096), Word("T"), Word("swapper_pg_dir")>>,
     <<HexWord(8192), Word("t"), Word("swapper_pg_dir")>>,
     <<HexWord(12288), Word("D"), Word("init_task")>>,
     <<Word("zz"), Word("T"), Word("bad")>>,
     <<HexWord(4096), Word("T")>>,
     <<>>,
     <<HexWord(16384), Word("t"), Word("e1000_probe"), Word("[e1000]")>>}

\* one more turn of the loop of parse_system_map
MapLine ==
    /\ map_err = "none"
    /\ Len(map_fed) < MaxMapLines
    /\ \E tokens \in MapLines :
          LET o == system_map_line(symbols, tokens)
          IN  /\ symbols' = o.map
              /\ map_err' = o.err
              /\ map_fed' = Append(map_fed, tokens)
    /\ UNCHANGED <<filelist, sys_map, profile_vtypes, abstract_types, loading>>
    /\ UNCHANGED state
    /\ UNCHANGED walk

NextMap == MapLine

SpecMap == Init /\ [][NextMap]_<<state, profile>>

\* the map the claim gives the lines 1..i of the text
RECURSIVE ClaimedMap(_)
ClaimedMap(i) ==
    IF i = 0 THEN EmptyDict
    ELSE LET tokens == map_fed[i]
         IN  IF Len(tokens) >= 3 /\ ~IsErr(PyLong16(tokens[1]))
             THEN Put(ClaimedMap(i - 1), AttrStr(tokens[3]).s, PyLong16(tokens[1]).n)
             ELSE ClaimedMap(i - 1)

\* C22 as claimed: over any text, each line of three tokens or more with a
\* hexadecimal first token gives symbol -> address, every other line is
\* skipped, and nothing is raised.
C22_SystemMapSkipsBadLines ==
    /\ map_err = "none"
    /\ symbols = ClaimedMap(Len(map_fed))

-----------------------------------------------------------------------------
(* parse_profile_file (lines 417-438) over the members of an archive.  A   *)
(* member is [dwarf, map, lines, text]: its name ends with ".dwarf", its   *)
(* name in lower case holds "system.map", and what it reads as: lines for  *)
(* parse_dwarf, or the token lines of a symbol map.                        *)

MaxMembers == 3

Member_(dwarf, map, lines, text) ==
    [dwarf |-> dwarf, map |-> map, lines |-> lines, text |-> text]

\* a DWARFParser as __init__ leaves it
NewParser ==
    [current_level |-> -1, name_stack |-> <<>>, id_to_name |-> EmptyDict,
     all_vtypes |-> EmptyDict, vtypes |-> EmptyDict, enums |-> EmptyDict,
     all_vars |-> EmptyDict, vars |-> EmptyDict,
     all_local_vars |-> <<>>, local_vars |-> <<>>, err |-> "none"]

\* the parsers after feed_line on the lines i.. of data
RECURSIVE FeedAll(_, _, _)
FeedAll(S, data, i) ==
    IF i > Len(data) THEN S
    ELSE FeedAll(UNION {IF q.err # "none" THEN {q} ELSE feed_line(q, data[i]) : q \in S},
                 data, i + 1)

\* lines 440-446: the parser as parse_dwarf leaves it; it returns
\* q.all_vtypes when q.err is "none"
parse_dwarf(data) ==
    UNION {IF q.err # "none" THEN {q} ELSE finalize(q) : q \in FeedAll({NewParser}, data, 1)}

\* a test that asks for both to be missing
IncompleteBoth(map, types) == map.none /\ types.none

\* line 430
Incomplete(map, types) == map.none \/ types.none

\* a dict of symbol -> address as a value
DictValue(map) ==
    IF map.none THEN PNone
    ELSE PDict({<<PStr(k), PInt(map.v[k])>> : k \in DOMAIN map.v})

\* lines 434-436: the table with VOLATILITY_MAGIC's SystemMap and DTB
WithMagic(table, map) ==
    LET old == IF "VOLATILITY_MAGIC" \in DOMAIN table THEN table["VOLATILITY_MAGIC"]
               ELSE [size |-> PNone, members |-> EmptyDict]
        magic == Put(Put(old.members, "SystemMap",
                         PList(<<PInt(0), PList(<<PStr("VolatilityMagic"),
                                                  PDict({<<PStr("value"), DictValue(map)>>})>>)>>)),
                     "DTB",
                     PList(<<PInt(0), PList(<<PStr("VolatilityDTB"), PDict({})>>)>>))
    IN  Put(table, "VOLATILITY_MAGIC", [size |-> old.size, members |-> magic])

DwarfTexts ==
    {<<>>,
     <<UnitLine, BaseInt(1), Struct(2, "A", 4), Member(3, "x", 0, 1)>>,
     <<Struct(2, "A", 4), Member(3, "x", 0, 9)>>}

MapTexts ==
    {<<>>,
     <<<<HexWord(4096), Word("T"), Word("swapper_pg_dir")>>>>,
     <<<<HexWord(4096), Word("T"), Word("swapper_pg_dir")>>, <<>>>>}

Members ==
    {Member_(TRUE, FALSE, t, <<>>) : t \in DwarfTexts}
    \cup {Member_(FALSE, TRUE, <<>>, t) : t \in MapTexts}
    \cup {Member_(TRUE, TRUE, <<Struct(2, "A", 4)>>, <<>>),
          Member_(FALSE, FALSE, <<>>, <<>>)}

\* lines 422-428: one turn of the loop over profile_file.filelist
VisitMember ==
    /\ loading = "visiting"
    /\ Len(filelist) < MaxMembers
    /\ \E f \in Members :
          /\ filelist' = Append(filelist, f)
          /\ IF f.dwarf
             THEN \E q \in parse_dwarf(f.lines) :
                     /\ Load(q)
                     /\ fed' = f.lines
                     /\ phase' = IF q.err = "none" THEN "done" ELSE "failed"
                     /\ profile_vtypes' = IF q.err = "none" THEN Some(q.all_vtypes)
                                          ELSE profile_vtypes
                     /\ loading' = IF q.err = "none" THEN "visiting" ELSE q.err
                     /\ UNCHANGED <<sys_map, map_fed, symbols, map_err>>
             ELSE IF f.map
             THEN LET o == parse_system_map(f.text)
                  IN  /\ sys_map' = IF o.err = "none" THEN Some(o.map) ELSE sys_map
                      /\ loading' = IF o.err = "none" THEN "visiting" ELSE o.err
                      /\ map_fed' = f.text
                      /\ symbols' = o.map
                      /\ map_err' = o.err
                      /\ UNCHANGED <<state, profile_vtypes>>
             ELSE UNCHANGED <<state, sys_map, profile_vtypes, loading,
                              map_fed, symbols, map_err>>
    /\ UNCHANGED abstract_types
    /\ UNCHANGED walk

\* lines 430-438, after the last member
EndOfArchive ==
    /\ loading = "visiting"
    /\ IF Incomplete(sys_map, profile_vtypes)
       THEN /\ loading' = "RuntimeError"
            /\ UNCHANGED <<abstract_types, all_vtypes>>
       ELSE IF profile_vtypes.none
       THEN /\ loading' = "AttributeError"
            /\ UNCHANGED <<abstract_types, all_vtypes>>
       ELSE /\ loading' = "returned"
            /\ abstract_types' = Some(WithMagic(profile_vtypes.v, sys_map))
            /\ all_vtypes' = WithMagic(profile_vtypes.v, sys_map)
    /\ UNCHANGED <<filelist, sys_map, profile_vtypes, map_fed, symbols, map_err>>
    /\ UNCHANGED walk
    /\ UNCHANGED <<current_level, name_stack, id_to_name, vtypes, enums, all_vars,
                   vars, all_local_vars, local_vars, err, phase, fed>>

NextProfile == VisitMember \/ EndOfArchive

SpecProfile == Init /\ [][NextProfile]_<<state, profile>>

\* C23: loading an archive in which no member is a debug dump, or none a
\* symbol map, ends in an error and hands no table to the caller, in
\* whatever order the members come; tables are returned only when a debug
\* dump and a symbol map were both found.
C23_IncompleteProfileFails ==
    /\ loading = "visiting" => abstract_types.none
    /\ (loading \notin {"visiting", "returned"}) => abstract_types.none
    /\ (loading # "visiting"
        /\ \/ \A i \in 1..Len(filelist) : ~filelist[i].dwarf
           \/ \A i \in 1..Len(filelist) : ~filelist[i].map) =>
          loading \notin {"visiting", "returned"}
    /\ loading = "returned" =>
          /\ ~abstract_types.none
          /\ \E i \in 1..Len(filelist) : filelist[i].dwarf
          /\ \E i \in 1..Len(filelist) : filelist[i].map /\ ~filelist[i].dwarf
          /\ ~sys_map.none

\* the load failed for an archive of a debug dump that parsed, with no
\* symbol map after or before it
C23_Witness ==
    /\ loading = "RuntimeError"
    /\ ~profile_vtypes.none /\ sys_map.none
    /\ Len(filelist) >= 2
    /\ \E i \in 1..Len(filelist) : filelist[i].dwarf /\ i < Len(filelist)

-----------------------------------------------------------------------------
(* The dispatch of variables and parameters (checked under SpecLocal).     *)

\* q is p, or p with one more item at its end
AtMostOneMore(p, q) ==
    \/ q = p
    \/ Len(q) = Len(p) + 1 /\ SubSeq(q, 1, Len(p)) = p

\* C24: a line whose kind is a formal parameter or a variable leaves the
\* current depth, the scope stack, the identifier index, the type table,
\* the enum table and the global-variable table as they were, and appends
\* at most one record to the unit's local-variable list.
C24_VariablesBypassStatements ==
    [][(Fed /\ fed'[Len(fed')].hdr /\ fed'[Len(fed')].kind \in VariableKinds) =>
          /\ UNCHANGED <<current_level, name_stack, id_to_name, vtypes, enums, vars>>
          /\ UNCHANGED <<all_vtypes, all_vars, all_local_vars>>
          /\ AtMostOneMore(local_vars, local_vars')]_state

\* a local of level 2 was fed right after the base type of level 1, so the
\* depth is still 1; a variable with a location was fed too, and a second
\* record is in the list
C24_Witness ==
    /\ Len(fed) >= 2 /\ err = "none"
    /\ IsAccepted(fed[Len(fed)]) /\ fed[Len(fed)].level = 2
    /\ ~fed[Len(fed) - 1].hdr \/ fed[Len(fed) - 1].kind \notin VariableKinds
    /\ current_level = 1
    /\ Len(local_vars) >= 1
    /\ \E i \in 1..Len(fed) :
          IsKind(fed[i], "DW_TAG_variable") /\ Has(fed[i], "DW_AT_location")
    /\ vars = EmptyDict

-----------------------------------------------------------------------------
(* The passes of the elimination loop (checked under SpecElim).            *)

\* the table after k passes of lines 323-333
RECURSIVE AfterPasses(_, _, _)
AfterPasses(types, globals, k) ==
    IF k = 0 THEN types ELSE ElimPass(AfterPasses(types, globals, k - 1), globals)

Synthetic(types) == {v \in DOMAIN types : IsSynthetic(v)}

\* pass k is the last: it removes nothing, so changed stays False
LastPass(types, globals, k) ==
    DOMAIN AfterPasses(types, globals, k) = DOMAIN AfterPasses(types, globals, k - 1)

\* C25: the elimination loop of a finalize call ends: every pass but the
\* last removes at least one layout, all of them synthetic, and the last
\* pass, which removes nothing, is pass n+1 at the latest for a table of n
\* synthetic layouts; the loop exits with the table that pass found.
C25_ElimTerminates ==
    [][FinalizeStep =>
          \A q \in BeforeElim(Self) :
              LET T == q.all_vtypes
                  G == q.all_vars
                  n == Cardinality(Synthetic(T))
              IN  \E k \in 1..(n + 1) :
                      /\ LastPass(T, G, k)
                      /\ \A j \in 1..(k - 1) :
                            LET before == DOMAIN AfterPasses(T, G, j - 1)
                                after == DOMAIN AfterPasses(T, G, j)
                            IN  /\ after \subseteq before /\ after # before
                                /\ before \ after \subseteq Synthetic(T)
                      /\ ElimLoop(T, G) = AfterPasses(T, G, k - 1)
                      /\ DOMAIN all_vtypes' = DOMAIN AfterPasses(T, G, k - 1)]_state

\* the anonymous struct of id 5 had a member of the anonymous struct of id
\* 7 and nothing named either: two passes removed one each, a third none
C25_Witness ==
    /\ phase = "done" /\ err = "none"
    /\ AnonDefs(5, 1, Len(fed)) # {} /\ AnonDefs(7, 1, Len(fed)) # {}
    /\ \E i \in 1..Len(fed) :
          /\ IsKind(fed[i], "DW_TAG_member") /\ fed[i].data["DW_AT_type"].n = 7
          /\ i - 1 \in AnonDefs(5, 1, Len(fed))
    /\ \A i \in 1..Len(fed) :
          IsKind(fed[i], "DW_TAG_member") => fed[i].data["DW_AT_type"].n = 7
    /\ \A i \in 1..Len(fed) : ~IsKind(fed[i], "DW_TAG_pointer_type")
    /\ UnnamedName(5) \notin DOMAIN all_vtypes
    /\ UnnamedName(7) \notin DOMAIN all_vtypes

-----------------------------------------------------------------------------
(* Reference chains and cycles: typedefs and pointers of ids 3, 4 and 5    *)
(* that refer to one another, and a struct whose member is of id 3.        *)

ChainLines ==
    {Struct(1, "A", 4), Member(2, "x", 0, 3),
     Typed(3, "DW_TAG_typedef", 4), Typed(3, "DW_TAG_typedef", 3),
     Typed(4, "DW_TAG_typedef", 5), Typed(4, "DW_TAG_typedef", 3),
     BaseInt(5), Pointer(5, 3), Pointer(5, 4), Typed(5, "DW_TAG_const_type", 6)}

NextChain == FeedLine(ChainLines) \/ EndOfStream

SpecChain == Init /\ [][NextChain]_state

\* the ids of the references in v, at any depth
RECURSIVE RefsIn(_)
RefsIn(v) ==
    IF v.k = "ref" THEN {v.n}
    ELSE IF v.k = "list" THEN UNION {RefsIn(v.l[i]) : i \in 1..Len(v.l)}
    ELSE {}

\* the ids that the values of the ids in S refer to, and so on
RECURSIVE RefClosure(_, _)
RefClosure(idx, S) ==
    LET nxt == S \cup UNION {RefsIn(idx[r]) : r \in S \cap DOMAIN idx}
    IN  IF nxt = S THEN S ELSE RefClosure(idx, nxt)

\* some id that v leads to is on a cycle of references
OnCycle(idx, v) ==
    \E r \in RefClosure(idx, RefsIn(v)) :
        r \in DOMAIN idx /\ r \in RefClosure(idx, RefsIn(idx[r]))

\* every id that v leads to is in the index
Closed(idx, v) == RefClosure(idx, RefsIn(v)) \subseteq DOMAIN idx

-----------------------------------------------------------------------------
(* The bits of a bitfield (checked under SpecBits).                        *)

\* C27: a struct member with bit offset o, bit size s and byte size b gets
\* the descriptor start_bit = 8b - o - s, end_bit = 8b - o: its width is s,
\* and start_bit is not negative when o + s <= 8b.
C27_BitFieldArithmetic ==
    BitMemberStored =>
        LET line == fed[Len(fed)]
            b == ByteSize(line)
            o == line.data["DW_AT_bit_offset"].n
            z == line.data["DW_AT_bit_size"].n
            args == vtypes[name_stack[Len(name_stack) - 1].name.s]
                        .members[MemberName(line)].l[2].l[2]
            start_bit == DictGet(args, "start_bit").n
            end_bit == DictGet(args, "end_bit").n
        IN  /\ start_bit = 8 * b - o - z
            /\ end_bit = 8 * b - o
            /\ end_bit - start_bit = z
            /\ (o + z <= 8 * b) => start_bit >= 0

\* bit offset 4, bit size 4, byte size 1 gave start_bit 0 and end_bit 4
C27_Witness ==
    /\ BitMemberStored
    /\ ByteSize(fed[Len(fed)]) = 1
    /\ fed[Len(fed)].data["DW_AT_bit_offset"].n = 4
    /\ fed[Len(fed)].data["DW_AT_bit_size"].n = 4
    /\ LET args == vtypes["A"].members[MemberName(fed[Len(fed)])].l[2].l[2]
       IN  DictGet(args, "start_bit").n = 0 /\ DictGet(args, "end_bit").n = 4

-----------------------------------------------------------------------------
(* Arrays of several dimensions (checked under SpecValue, where a line's   *)
(* id is its position in the stream).                                      *)

\* lines 278-289: the element count a subrange line gives its array
SubrangeCount(line) ==
    IF ~Has(line, "DW_AT_upper_bound") THEN 0
    ELSE IF Unparseable(line.data["DW_AT_upper_bound"]) THEN 0 + 1
    ELSE ClaimedCount(line)

\* line j is a subrange child of the level-1 line i
IsChildSubrange(f, i, j) ==
    /\ i < j /\ j <= Len(f)
    /\ IsKind(f[j], "DW_TAG_subrange_type")
    /\ \A m \in (i + 1)..j : f[m].level = 2

\* the element type reference of array line i wrapped once per subrange
\* child among lines i+1..j, a later child around an earlier one
RECURSIVE NestedUpTo(_, _, _)
NestedUpTo(f, i, j) ==
    IF j <= i THEN Attr(f[i].data, "DW_AT_type")
    ELSE IF IsChildSubrange(f, i, j)
         THEN PList(<<PStr("array"), PInt(SubrangeCount(f[j])), NestedUpTo(f, i, j - 1)>>)
         ELSE NestedUpTo(f, i, j - 1)

\* the level-1 line the last line of f is a child of, 0 when there is none
ParentIndex(f) ==
    LET before == {i \in 1..(Len(f) - 1) : f[i].level = 1}
    IN  IF before = {} THEN 0 ELSE CHOOSE i \in before : \A m \in before : m <= i

\* C28: an array line followed by k subrange children maps the array's id
\* to k nested array descriptors around the element type reference, the
\* last subrange outermost; with k = 0 the id maps to the element type
\* reference itself; and a subrange line changes the mapping of no id but
\* its parent's.
C28_NestedArrays ==
    [][/\ (phase' = "feeding") =>
              \A i \in 1..Len(fed') :
                  IsKind(fed'[i], "DW_TAG_array_type") =>
                      /\ i \in DOMAIN id_to_name'
                      /\ id_to_name'[i] = NestedUpTo(fed', i, Len(fed'))
       /\ (Fed /\ IsKind(fed'[Len(fed')], "DW_TAG_subrange_type")) =>
              \A id \in DOMAIN id_to_name :
                  id # ParentIndex(fed') =>
                      /\ id \in DOMAIN id_to_name'
                      /\ id_to_name'[id] = id_to_name[id]]_state

\* an array with two subrange children of different counts, the second
\* one outermost, beside an array with none
C28_Witness ==
    /\ phase = "feeding"
    /\ \E i \in 1..Len(fed) :
          /\ IsKind(fed[i], "DW_TAG_array_type")
          /\ IsChildSubrange(fed, i, i + 1) /\ IsChildSubrange(fed, i, i + 2)
          /\ SubrangeCount(fed[i + 1]) # SubrangeCount(fed[i + 2])
          /\ id_to_name[i] =
                 PList(<<PStr("array"), PInt(SubrangeCount(fed[i + 2])),
                         PList(<<PStr("array"), PInt(SubrangeCount(fed[i + 1])),
                                 Attr(fed[i].data, "DW_AT_type")>>)>>)
    /\ \E i \in 1..Len(fed) :
          /\ IsKind(fed[i], "DW_TAG_array_type")
          /\ id_to_name[i] = Attr(fed[i].data, "DW_AT_type")

-----------------------------------------------------------------------------
(* What the enum merge leaves alone (checked under SpecEnum).              *)

\* lines 308-333: the tables as the enum merge finds them
BeforeMerge(self) == Then(BeforeElim(self), Eliminate)

\* the deepest leaf of the member names an entry of the enum table
HasEnumLeaf(memb, ens) ==
    LET d == get_deepest(memb)
    IN  d.k = "str" /\ d.s \in DOMAIN ens

\* a differs from b at most in the place of b's innermost list
RECURSIVE SameAround(_, _)
SameAround(b, a) ==
    IF b.k # "list" THEN a = b
    ELSE IF Len(b.l) = 1 THEN TRUE
    ELSE /\ a.k = "list" /\ Len(a.l) = Len(b.l)
         /\ \A i \in 1..(Len(b.l) - 1) : a.l[i] = b.l[i]
         /\ SameAround(b.l[Len(b.l)], a.l[Len(b.l)])

\* what a holds in the place of b's innermost list
RECURSIVE LeafAt(_, _)
LeafAt(b, a) ==
    IF b.k = "list" /\ Len(b.l) > 1 THEN LeafAt(b.l[Len(b.l)], a.l[Len(b.l)]) ELSE a

\* choices maps each distinct value of the enum to a name of that value
IsInverse(choices, values) ==
    /\ choices.k = "dict"
    /\ {p[1] : p \in choices.d} = {PInt(values[k]) : k \in DOMAIN values}
    /\ Cardinality(choices.d) = Cardinality({values[k] : k \in DOMAIN values})
    /\ \A p \in choices.d :
          p[2].k = "str" /\ p[2].s \in DOMAIN values /\ PInt(values[p[2].s]) = p[1]

\* C29: the enum merge of a finalize call changes only the matched leaf of
\* a member: its offset and every pointer or array wrapper around the leaf,
\* array counts included, stay; a member whose leaf names no enum stays as
\* it is; and the choices of the descriptor put in the leaf's place are
\* the inverse of the enum's name -> value map, one entry per value.
C29_EnumMergeFrame ==
    [][FinalizeStep =>
          \A q \in BeforeMerge(Self) :
              q.err = "none" =>
                  /\ DOMAIN all_vtypes' = DOMAIN q.all_vtypes
                  /\ \A t \in DOMAIN q.all_vtypes :
                        /\ DOMAIN all_vtypes'[t].members = DOMAIN q.all_vtypes[t].members
                        /\ \A m \in DOMAIN q.all_vtypes[t].members :
                              LET b == q.all_vtypes[t].members[m]
                                  a == all_vtypes'[t].members[m]
                              IN  IF HasEnumLeaf(b, q.enums)
                                  THEN /\ a.l[1] = b.l[1]
                                       /\ SameAround(b, a)
                                       /\ IsEnumeration(LeafAt(b, a))
                                       /\ IsInverse(DictGet(LeafAt(b, a).l[2], "choices"),
                                                    q.enums[get_deepest(b).s].values)
                                  ELSE a = b]_state

\* finalize returned with an enum of one name merged into a member behind
\* a pointer: the offset and the pointer stay, the choices map the value
\* to the name
C29_Witness ==
    /\ phase = "done"
    /\ \E e \in DOMAIN enums : DOMAIN enums[e].values # {}
    /\ \E memb \in AllMembers :
          /\ memb.l[1] = PInt(4)
          /\ memb.l[2].k = "list" /\ Len(memb.l[2].l) = 2
          /\ memb.l[2].l[1] = PStr("pointer")
          /\ IsEnumeration(memb.l[2].l[2])
          /\ DictGet(memb.l[2].l[2].l[2], "choices").d # {}

\* finalize returned with member behind a pointer to void left as it was
C29_Untouched ==
    /\ phase = "done"
    /\ DOMAIN enums # {}
    /\ \E memb \in AllMembers : memb.l[2] = PList(<<PStr("pointer"), PList(<<PStr("void")>>)>>)

\* finalize returned with an enum merged into a member behind an array of 3
C29_ArrayKept ==
    /\ phase = "done"
    /\ \E memb \in AllMembers :
          /\ memb.l[2].k = "list" /\ Len(memb.l[2].l) = 3
          /\ memb.l[2].l[1] = PStr("array") /\ memb.l[2].l[2] = PInt(3)
          /\ IsEnumeration(memb.l[2].l[3])

-----------------------------------------------------------------------------
(* Local variables and parameters with an attribute missing.               *)

LocalAttrs == {"DW_AT_name", "DW_AT_decl_line", "DW_AT_decl_file", "DW_AT_type"}

\* a local variable or parameter line without one of its attributes
Partial(id, kind, missing) ==
    LET full == Local(id, kind, "i", 10, 1)
    IN  [full EXCEPT !.data = [k \in DOMAIN full.data \ {missing} |-> full.data[k]]]

PartialLines ==
    {UnitLine, Local(2, "DW_TAG_variable", "i", 10, 1)}
    \cup {Partial(3, kind, missing) :
             kind \in {"DW_TAG_variable", "DW_TAG_formal_parameter"}, missing \in LocalAttrs}

NextPartial == FeedLine(PartialLines) \/ EndOfStream

SpecPartial == Init /\ [][NextPartial]_state

\* the line just fed is a variable or parameter line without attribute a
FedWithout(a) ==
    /\ Fed
    /\ fed'[Len(fed')].hdr
    /\ fed'[Len(fed')].kind \in {"DW_TAG_variable", "DW_TAG_formal_parameter"}
    /\ ~Has(fed'[Len(fed')], a)

\* C30 as claimed: a formal-parameter or local-variable line that lacks
\* its name, declaration line, declaration file or type is ignored: the
\* local-variable list stays as it is and nothing is raised.
C30_PartialLocalIgnored ==
    [][\A a \in LocalAttrs :
          FedWithout(a) => err' = "none" /\ local_vars' = local_vars]_state

\* what holds instead: only a line without name, declaration line or type
\* is ignored
C30_ExceptDeclFile ==
    [][\A a \in LocalAttrs \ {"DW_AT_decl_file"} :
          FedWithout(a) => err' = "none" /\ local_vars' = local_vars]_state

\* a line that has all but its declaration file raises KeyError
C30_DeclFileRaises ==
    [][FedWithout("DW_AT_decl_file") =>
          err' = "KeyError" /\ phase' = "failed" /\ local_vars' = local_vars]_state

-----------------------------------------------------------------------------
(* The height of the scope stack (checked under SpecScope, whose lines     *)
(* are statements of every level 0..MaxLevel in every order).              *)

\* the stream starts at level 0 and never rises by more than one level
Gradual(f) ==
    /\ f # <<>> /\ f[1].level = 0
    /\ \A i \in 2..Len(f) : f[i].level <= f[i - 1].level + 1

\* C31: after every statement line, whatever the levels of the lines fed,
\* the scope stack is not empty, nothing was raised, and the stack holds at
\* most current_level + 1 frames; it holds exactly current_level + 1 when
\* the stream starts at level 0 and never rises by more than one level.
C31_StackHeight ==
    fed # <<>> =>
        /\ err = "none"
        /\ current_level = fed[Len(fed)].level
        /\ Len(name_stack) >= 1
        /\ Len(name_stack) <= current_level + 1
        /\ Gradual(fed) => Len(name_stack) = current_level + 1

\* levels 0, 1, 2, 1 were fed: the stack was cut from three frames to two
C31_Witness ==
    /\ Len(fed) = 4
    /\ fed[1].level = 0 /\ fed[2].level = 1 /\ fed[3].level = 2 /\ fed[4].level = 1
    /\ Len(name_stack) = 2 /\ current_level = 1

\* levels 2, 1 were fed: the stack holds one frame, fewer than level + 1
C31_Short ==
    /\ Len(fed) = 2 /\ fed[1].level = 2 /\ fed[2].level = 1
    /\ Len(name_stack) = 1

-----------------------------------------------------------------------------
(* An enum of an earlier unit and a struct of the same name: units with a  *)
(* named and an anonymous enum, a named and an anonymous struct under the  *)
(* same name, and a struct with a member of either.                        *)

\* <1><id><DW_TAG_enumeration_type> DW_AT_byte_size<size>
AnonEnum(id, size) ==
    Line(1, id, "DW_TAG_enumeration_type", Data({<<"DW_AT_byte_size", ADec(size)>>}))

ShadowLines ==
    {UnitLine, Enum(1, "S", 4), AnonEnum(3, 4),
     Struct(2, "S", 8), AnonStruct(3, 8), Struct(4, "A", 8),
     Member(5, "x", 0, 2), Member(5, "x", 0, 3)}

NextShadow == FeedLine(ShadowLines) \/ EndOfStream

SpecShadow == Init /\ [][NextShadow]_state

\* the name a struct line stores its layout under
StructName(line) ==
    IF Has(line, "DW_AT_name") THEN MemberName(line) ELSE UnnamedName(line.id)

\* a struct line, named or not, that stores a layout
IsAggregateDef(line) ==
    /\ IsKind(line, "DW_TAG_structure_type")
    /\ Has(line, "DW_AT_byte_size") /\ ~Has(line, "DW_AT_declaration")

\* In the unit whose finalize has just returned, line a is the last to
\* define its struct, line j is the last of its members of that name, and
\* the member's type reference is an id that the unit gives to struct
\* definitions only, line d being one of them; the unit has no enumeration
\* of the struct's name.
OwnAggregateMember(a, j, d) ==
    LET lo == UnitStart(FinalizedEnd)
        e == FinalizedEnd
    IN  /\ lo <= a /\ a < j /\ j <= e /\ lo <= d /\ d <= e
        /\ IsStructDef(fed[a])
        /\ \A k \in (a + 1)..e :
              IsAggregateDef(fed[k]) => StructName(fed[k]) # StructName(fed[a])
        /\ j \in MemberRun(a, e)
        /\ \A k \in MemberRun(a, e) :
              MemberName(fed[k]) = MemberName(fed[j]) => k <= j
        /\ IsAggregateDef(fed[d])
        /\ fed[d].id = fed[j].data["DW_AT_type"].n
        /\ \A k \in lo..e :
              (fed[k].level = 1 /\ fed[k].id = fed[d].id) => fed[k] = fed[d]
        /\ \A k \in lo..e :
              IsKind(fed[k], "DW_TAG_enumeration_type") =>
                  NameOrUnnamed(fed[k].data, fed[k].id) # StructName(fed[d])

\* the member of line j, in the cumulative layout of the struct of line a,
\* is of the struct of line d, and that struct has a cumulative layout
KeptAsAggregate(a, j, d) ==
    /\ StructName(fed[a]) \in DOMAIN all_vtypes
    /\ MemberName(fed[j]) \in DOMAIN all_vtypes[StructName(fed[a])].members
    /\ all_vtypes[StructName(fed[a])].members[MemberName(fed[j])] =
          PList(<<PInt(MemberOffset(fed[j])), PList(<<PStr(StructName(fed[d]))>>)>>)
    /\ StructName(fed[d]) \in DOMAIN all_vtypes

\* C32 as claimed: once finalize has returned, a member whose type is a
\* struct defined in the member's own unit is of that struct, not of an
\* enumeration, whatever enums earlier units defined, and the struct it
\* names has its cumulative layout.
C32_AggregateNotShadowed ==
    Finalized =>
        \A a, j, d \in 1..Len(fed) :
            OwnAggregateMember(a, j, d) => KeptAsAggregate(a, j, d)

\* what holds instead: the same, for a struct whose name no enum of the
\* stream has
C32_UnlessNamesake ==
    Finalized =>
        \A a, j, d \in 1..Len(fed) :
            (OwnAggregateMember(a, j, d) /\ StructName(fed[d]) \notin DOMAIN enums) =>
                KeptAsAggregate(a, j, d)

\* such a member was merged as of its struct
C32_Kept ==
    /\ phase = "done"
    /\ \E a, j, d \in 1..Len(fed) : OwnAggregateMember(a, j, d) /\ KeptAsAggregate(a, j, d)

\* the anonymous struct of id 3 had a member of itself, an earlier unit an
\* anonymous enum of id 3: a finalize made the member an enumeration, the
\* next one removed the struct
C32_Removed ==
    /\ phase = "done"
    /\ \E i \in 1..Len(fed) : fed[i] = AnonStruct(3, 8)
    /\ UnnamedName(3) \notin DOMAIN all_vtypes

-----------------------------------------------------------------------------
(* Forward declarations of a name that has a layout: units that define     *)
(* struct T with a member, declare struct T or enum T forward, and define  *)
(* enum T.  A line's id is its position in the stream.                     *)

ForwardLines ==
    {UnitLine, Numbered(BaseInt(0), 1), Numbered(Member(0, "x", 0, 1), 2),
     Definition("DW_TAG_structure_type", "T", 4),
     Definition("DW_TAG_structure_type", "T", 8),
     Definition("DW_TAG_enumeration_type", "T", 4),
     Declaration("DW_TAG_structure_type", "T"),
     Declaration("DW_TAG_enumeration_type", "T")}

NextForward == FeedLine(ForwardLines) \/ EndOfStream

SpecForward == Init /\ [][NextForward]_state

\* a struct or enumeration line that is a forward declaration
IsForward(line) ==
    /\ line.hdr
    /\ line.kind \in {"DW_TAG_structure_type", "DW_TAG_enumeration_type"}
    /\ Has(line, "DW_AT_declaration")

\* the layout a table holds for name, or a layout of size -1 when none
Entry(table, name) ==
    IF name \in DOMAIN table THEN table[name] ELSE Layout(-1)

\* what a finalize call on self may end with, for name
FinalizeGives(self, name) ==
    {<<q.err, Entry(q.vtypes, name), Entry(q.all_vtypes, name)>> : q \in finalize(self)}

\* C33: a forward declaration of a struct or an enumeration raises nothing
\* and leaves the entry of its name as it was, in the per-unit table and in
\* the cumulative table, byte size and members, and the finalize that
\* follows gives that name what it would have given it without the
\* declaration.
C33_ForwardKeepsEntry ==
    [][(Fed /\ IsForward(fed'[Len(fed')])) =>
          LET name == MemberName(fed'[Len(fed')])
          IN  /\ err' = "none"
              /\ Entry(vtypes', name) = Entry(vtypes, name)
              /\ Entry(all_vtypes', name) = Entry(all_vtypes, name)
              /\ FinalizeGives(Self', name) = FinalizeGives(Self, name)]_state

\* struct T of 4 bytes with member x was merged by the first unit; the
\* second unit declared T forward and finalize returned: T is as it was
C33_Witness ==
    /\ phase = "done"
    /\ Len(fed) = 5
    /\ IsStructDef(fed[2]) /\ IsKind(fed[4], CU) /\ IsForward(fed[5])
    /\ "T" \in DOMAIN all_vtypes
    /\ all_vtypes["T"].size = 4
    /\ all_vtypes["T"].members =
          Put(EmptyDict, "x", PList(<<PInt(0), PList(<<PStr("int")>>)>>))

\* struct T was defined in the unit and then declared forward in it
C33_SameUnit ==
    /\ phase = "feeding"
    /\ "T" \in DOMAIN vtypes /\ DOMAIN vtypes["T"].members # {}
    /\ fed # <<>> /\ IsForward(fed[Len(fed)])

-----------------------------------------------------------------------------
(* Iterating a list_head.                                                  *)

\* is_valid() of the object at address a
is_valid(a) == a \in Nodes

\* the pointer of the list_head at address a, dereferenced: the address it
\* leads to, Null when that address or a itself holds no object
dereference(g, a) == IF is_valid(a) /\ is_valid(g[a]) THEN g[a] ELSE Null

\* a set of seen offsets that starts empty
InitialSeenEmpty(offset) == {}

\* lines 506-507: seen = set(); seen.add(lst.obj_offset)
InitialSeen(offset) == {offset}

\* lines 493-507, up to the loop.  What the object model does with the
\* offset of an invalid first lst is its own business: the call goes on
\* into the loop or raises.
Call ==
    /\ walk_pc = "idle"
    /\ \E h \in Targets, f \in BOOLEAN, g \in Graphs :
          /\ head' = h /\ forward' = f /\ links' = g
          /\ yielded' = <<>>
          /\ IF ~is_valid(h)
             THEN /\ walk_pc' = "returned"
                  /\ UNCHANGED <<lst, seen_offsets>>
             ELSE /\ lst' = dereference(g, h)
                  /\ seen_offsets' = InitialSeen(dereference(g, h))
                  /\ IF is_valid(dereference(g, h)) THEN walk_pc' = "loop"
                     ELSE walk_pc' \in {"loop", "raised"}
    /\ UNCHANGED <<state, profile>>

\* lines 509-526: one turn of the loop, to the return or to the yield
NextItem ==
    /\ walk_pc = "loop"
    /\ LET following == dereference(links, lst)
       IN  IF ~is_valid(following) \/ following \in seen_offsets
           THEN /\ walk_pc' = "returned"
                /\ UNCHANGED <<lst, seen_offsets, yielded>>
           ELSE /\ seen_offsets' = seen_offsets \cup {following}
                /\ yielded' = Append(yielded, lst)
                /\ lst' = following
                /\ UNCHANGED walk_pc
    /\ UNCHANGED <<head, forward, links>>
    /\ UNCHANGED <<state, profile>>

NextList == Call \/ NextItem

\* the caller's for loop asks for the next item until the generator ends
SpecList == Init /\ [][NextList]_<<state, profile, walk>> /\ WF_walk(NextItem)

\* the address k links away from a
RECURSIVE Hop(_, _, _)
Hop(g, a, k) == IF k = 0 THEN a ELSE dereference(g, Hop(g, a, k - 1))

\* the head and n entries make a circular list
IsCircle(n) ==
    /\ is_valid(head)
    /\ Hop(links, head, n + 1) = head
    /\ \A i, j \in 0..n : i # j => Hop(links, head, i) # Hop(links, head, j)

WalkSafe ==
    /\ \A i, j \in 1..Len(yielded) : i # j => yielded[i] # yielded[j]
    /\ \A n \in 0..(MaxNodes - 1) :
          (forward /\ IsCircle(n)) =>
              /\ walk_pc # "raised"
              /\ \A i \in 1..Len(yielded) : yielded[i] # head
              /\ walk_pc = "returned" => yielded = [i \in 1..n |-> Hop(links, head, i)]

\* C34: over any pointer graph the iteration ends and yields no two items
\* of one list-entry offset; on a circular list of the head and n entries,
\* forward iteration yields the n entries once each in link order and no
\* item built from the head.
C34_ListIteration ==
    /\ []WalkSafe
    /\ (walk_pc = "loop") ~> (walk_pc \in {"returned", "raised"})

\* forward iteration of a circular list of the head and two entries
\* returned after two items
C34_Witness ==
    /\ walk_pc = "returned" /\ forward
    /\ IsCircle(2)
    /\ Len(yielded) = 2

\* the pointers lead into a cycle that leaves the head out: the iteration
\* returned when it came back to an entry
C34_Rho ==
    /\ walk_pc = "returned"
    /\ is_valid(head) /\ Len(yielded) = 1
    /\ \A n \in 0..(MaxNodes - 1) : ~IsCircle(n)
    /\ dereference(links, lst) \in seen_offsets

====
